---- MODULE Spec2Model ----
(***************************************************************************)
(* Admission controller of join_captcha_bot.py: the pending-member         *)
(* registry (new_users_list), the join-artifact tracker                    *)
(* (to_delete_join_messages_list), the self-destruct scheduler             *)
(* (to_delete_in_time_messages_list) and the sweep loop                    *)
(* (handle_remove_and_kicks) that runs on the main thread while the        *)
(* dispatcher thread runs the event handlers one at a time.                *)
(*                                                                         *)
(* Time is in seconds, as returned by time().  Python lists are TLA+       *)
(* sequences; a Python index i is the TLA+ index i + 1.  A handler and a   *)
(* pass of either sweep function are one step each; the clock advances     *)
(* while the sweep loop sleeps.  The variable ev records the last step.    *)
(***************************************************************************)
EXTENDS Integers, Sequences, FiniteSets, TLC

(***************************************************************************)
(* Bounds of the model.                                                    *)
(***************************************************************************)
\* Minutes of clock in the specification of all handlers (Spec).
MaxTimeMin == 2
\* Spec takes an update that may register messages while the scheduler table
\* is shorter than this.
MaxSched == 2
\* Minutes of clock, before and after the hour of grace, in SpecSweep.
MaxSweepMin == 5
\* Minutes of clock, before and after the hour of grace, in SpecPair.
MaxPairMin == 1
\* Minutes of clock in SpecSched.
MaxSchedMin == 2
\* SpecSched takes an update while the scheduler table is shorter than this.
MaxSchedLen == 3
\* Minutes the protection model runs, and the scheduler length up to which
\* it takes events that register messages.
MaxProtectMin == 2
MaxProtectLen == 2

(***************************************************************************)
(* Values.                                                                 *)
(***************************************************************************)
Chats == {1}
Users == {1, 2}
\* bot.id: the controller's own account, sender of every notice.
BotId == 0
\* Python's None where a message id is expected (transport ids start at 1).
None == 0
\* An empty authorization slot: Protection_Current_User is "" once cleared and
\* 0 in a fresh document, whose grant time 0 lies decades before any time().
NoUser == 0

\* Answers the challenge generator returns (captcha["number"]).
Answers == { <<"4", "8", "2", "1">>, <<"A", "B", "1", "2">> }

\* Texts of inbound messages.
Texts ==
  { <<"4", "8", "2", "1">>,
    <<"a", "b", "1", "2">>,
    <<"o", "k", " ", "A", "b", "1", "2", "!">>,
    <<"9", "9", "9", "9">>,
    <<"9", "9">>,
    <<"a", "b", "c", "d">>,
    <<"h", "i">>,
    <<"h", "i", " ", "@", "b", "o", "t">>,
    <<"s", "e", "e", " ", "x", ".", "c", "o", "m">> }


(***************************************************************************)
(* Python list and string helpers.                                         *)
(***************************************************************************)
\* First index of seq holding x (list.index), 0 when x is not in seq.
IndexOf(seq, x) ==
  IF \E k \in 1..Len(seq) : seq[k] = x
  THEN CHOOSE k \in 1..Len(seq) : seq[k] = x /\ \A j \in 1..(k - 1) : seq[j] # x
  ELSE 0

\* "if x in lst: lst.remove(x)": the first element equal to x is removed.
RemoveFirst(seq, x) ==
  LET k == IndexOf(seq, x)
  IN  IF k = 0 THEN seq
      ELSE [j \in 1..(Len(seq) - 1) |-> IF j < k THEN seq[j] ELSE seq[j + 1]]

\* The elements of a sequence.
Range(seq) == { seq[k] : k \in 1..Len(seq) }

\* str.lower() on the characters the model uses.
LowerChar(ch) ==
  CASE ch = "A" -> "a"
    [] ch = "B" -> "b"
    [] OTHER -> ch

Lower(s) == [k \in 1..Len(s) |-> LowerChar(s[k])]

\* "sub in s" for Python strings.
Contains(sub, s) ==
  \E off \in 0..(Len(s) - Len(sub)) :
    \A k \in 1..Len(sub) : s[off + k] = sub[k]

Digits == {"0", "1", "2", "3", "4", "5", "6", "7", "8", "9"}

\* is_int(s): int(s) succeeds (texts of the model carry no surrounding
\* blanks, so these are the non-empty digit strings, with or without "-").
is_int(s) ==
  LET d == IF Len(s) > 0 /\ s[1] = "-" THEN Tail(s) ELSE s
  IN  Len(d) > 0 /\ \A k \in 1..Len(d) : d[k] \in Digits

\* The value of one digit.
DigitValue(ch) ==
  CASE ch = "0" -> 0 [] ch = "1" -> 1 [] ch = "2" -> 2 [] ch = "3" -> 3
    [] ch = "4" -> 4 [] ch = "5" -> 5 [] ch = "6" -> 6 [] ch = "7" -> 7
    [] ch = "8" -> 8 [] ch = "9" -> 9

\* The value of a string of digits.
RECURSIVE DigitsValue(_)
DigitsValue(d) ==
  IF d = <<>> THEN 0
  ELSE 10 * DigitsValue(SubSeq(d, 1, Len(d) - 1)) + DigitValue(d[Len(d)])

\* int(s), for a string is_int accepts.
int(s) == IF s[1] = "-" THEN 0 - DigitsValue(Tail(s)) ELSE DigitsValue(s)

\* The alias scan of msg_nocmd: some blank-separated word of the text is longer
\* than one character and starts with '@'.
HasAlias(s) ==
  \E k \in 1..Len(s) :
    /\ s[k] = "@"
    /\ (k = 1 \/ s[k - 1] = " ")
    /\ k < Len(s)
    /\ s[k + 1] # " "

(***************************************************************************)
(* Messages and the scheduler.                                             *)
(***************************************************************************)
\* A transport message object: chat_id, from_user.id, message_id.
Msg(c, u, id) == [chat_id |-> c, from_user |-> u, message_id |-> id]

\* What a failed send leaves in place of a message object.
NoMsg == Msg(0, 0, None)

\* CONST["T_DEL_MSG"]: minutes a notice lives.
T_DEL_MSG == 5
\* CONST["T_DEL_WELCOME_MSG"]: minutes a welcome message lives.
T_DEL_WELCOME_MSG == 5

\* tlg_msg_to_selfdestruct_in(message, time_delete_min) called at time t on the
\* table lst; delay_s is time_delete_min * 60.  None is refused.
tlg_msg_to_selfdestruct_in(lst, message, delay_s, t) ==
  IF message = NoMsg THEN lst
  ELSE Append(lst, [Chat_id |-> message.chat_id, User_id |-> message.from_user,
                    Msg_id |-> message.message_id, delete_time |-> t + delay_s])

\* tlg_msg_to_selfdestruct(message)
tlg_msg_to_selfdestruct(lst, message, t) ==
  tlg_msg_to_selfdestruct_in(lst, message, T_DEL_MSG * 60, t)

\* tlg_send_selfdestruct_msg_in: sent is the message the transport returned, or
\* NoMsg when bot.send_message raised; the result is the table afterwards.
tlg_send_selfdestruct_msg_in(lst, sent, delay_s, t) ==
  tlg_msg_to_selfdestruct_in(lst, sent, delay_s, t)

\* The id tlg_send_selfdestruct_msg_in returns (sent_msg_id).
SentId(sent) == IF sent = NoMsg THEN None ELSE sent.message_id

(***************************************************************************)
(* State.                                                                  *)
(***************************************************************************)
VARIABLES
  now,                              \* time()
  config,                           \* per chat: Enabled, Captcha_Time, ...
  new_users_list,                   \* the pending registry
  to_delete_join_messages_list,     \* the join-artifact tracker
  to_delete_in_time_messages_list,  \* the self-destruct scheduler
  sweep_pc,                         \* the function handle_remove_and_kicks runs next
  files_config_list,                \* the configuration files and their locks
  thread,                           \* per thread: where it is in the config store
  ev                                \* the last step taken and what it saw

vars == <<now, config, new_users_list, to_delete_join_messages_list,
          to_delete_in_time_messages_list, sweep_pc, files_config_list,
          thread, ev>>

procs == <<files_config_list, thread>>

lists == <<new_users_list, to_delete_join_messages_list,
           to_delete_in_time_messages_list>>

\* Message ids the state refers to.
UsedIds ==
  UNION { { r.msg_id_join0.message_id, r.msg_id_join1, r.msg_id_join2 } :
          r \in Range(to_delete_join_messages_list) }
  \cup { e.Msg_id : e \in Range(to_delete_in_time_messages_list) }

\* The transport numbers messages upwards; the k-th new message gets the k-th
\* id that nothing in the state refers to.
RECURSIVE FreshFrom(_, _)
FreshFrom(n, k) ==
  IF n \in UsedIds THEN FreshFrom(n + 1, k)
  ELSE IF k = 1 THEN n ELSE FreshFrom(n + 1, k - 1)

FreshId(k) == FreshFrom(1, k)

\* Lines 956-967 with the test of the sender left out: the scan stops at the
\* first entry of the chat.
MutFindUserAnyMember(lst, c, u) ==
  IF \E k \in 1..Len(lst) : lst[k].chat_id = c
  THEN CHOOSE k \in 1..Len(lst) :
         /\ lst[k].chat_id = c
         /\ \A j \in 1..(k - 1) : lst[j].chat_id # c
  ELSE 0

\* Lines 956-967 with the test of the chat left out: the scan stops at the
\* sender's first entry, of whatever chat.
MutFindUserAnyChat(lst, c, u) ==
  IF \E k \in 1..Len(lst) : lst[k].user_id = u
  THEN CHOOSE k \in 1..Len(lst) :
         /\ lst[k].user_id = u
         /\ \A j \in 1..(k - 1) : lst[j].user_id # u
  ELSE 0

\* The pending entry of (c, u) a handler's scan stops at: the first one.
FindUser(lst, c, u) ==
  IF \E k \in 1..Len(lst) : lst[k].user_id = u /\ lst[k].chat_id = c
  THEN CHOOSE k \in 1..Len(lst) :
         /\ lst[k].user_id = u /\ lst[k].chat_id = c
         /\ \A j \in 1..(k - 1) : ~(lst[j].user_id = u /\ lst[j].chat_id = c)
  ELSE 0


\* No lock of a configuration file is held and no thread is inside the store.
NoStoreCall ==
  /\ files_config_list = [c \in {} |-> "free"]
  /\ thread = [t \in {} |-> "idle"]

(***************************************************************************)
(* Initial state: the three tables are empty (they live in memory only);   *)
(* each chat's configuration document holds values an earlier run stored.  *)
(***************************************************************************)
InitConfigs ==
  [Enabled : {TRUE}, Captcha_Time : {1}, Welcome_Msg : {"welcome"},
   Ignore_List : {{}}, Protected : {FALSE},
   Protection_Current_User : {NoUser}, Protection_Current_Time : {0},
   Restrict_Non_Text : {TRUE}]

Init ==
  /\ now = 0
  /\ config \in [Chats -> InitConfigs]
  /\ new_users_list = <<>>
  /\ to_delete_join_messages_list = <<>>
  /\ to_delete_in_time_messages_list = <<>>
  /\ sweep_pc = "selfdestruct"
  /\ NoStoreCall
  /\ ev = [op |-> "init"]

\* get_chat_config(chat_id, param)
get_chat_config(c, param) == config[c][param]

\* The sweep loop sleeps between two passes, and time passes: d seconds, a
\* number of rounds in which nothing new is due.
Sleep(d) ==
  /\ sweep_pc = "sleep"
  /\ sweep_pc' = "selfdestruct"
  /\ now' = now + d
  /\ ev' = [op |-> "sleep"]
  /\ UNCHANGED <<procs, config, lists>>

(***************************************************************************)
(* msg_new_user                                                            *)
(***************************************************************************)
\* Lines 750-759 left out: every record stays.
MutKeepPreviousJoinMsgs(lst, i, c, u) == lst

\* Lines 750-759: the previous artifact records of (c, u) are deleted and
\* removed, the index moving on after a removal as well.
RECURSIVE RemovePreviousJoinMsgs(_, _, _, _)
RemovePreviousJoinMsgs(lst, i, c, u) ==
  IF i > Len(lst) THEN lst
  ELSE IF lst[i].user_id = u /\ lst[i].chat_id = c
       THEN RemovePreviousJoinMsgs(RemoveFirst(lst, lst[i]), i + 1, c, u)
       ELSE RemovePreviousJoinMsgs(lst, i + 1, c, u)

\* Lines 809-822 with the previous entry forgotten: the new entry is appended.
MutAdmitAppend(lst, new_user) == Append(lst, new_user)

\* Lines 809-822 with the retry count not carried over.
MutAdmitResetRetries(lst, new_user) ==
  LET same == { k \in 1..Len(lst) : lst[k].chat_id = new_user.chat_id
                                    /\ lst[k].user_id = new_user.user_id }
  IN  IF same = {} THEN Append(lst, new_user)
      ELSE [lst EXCEPT ![CHOOSE k \in same : \A j \in same : j <= k] = new_user]

\* Lines 809-822: the entry of a member who was in the registry is replaced in
\* place and keeps its join_retries; any other entry is appended.
AdmitUser(lst, new_user) ==
  LET same == { k \in 1..Len(lst) : lst[k].chat_id = new_user.chat_id
                                    /\ lst[k].user_id = new_user.user_id }
  IN  IF same = {} THEN Append(lst, new_user)
      ELSE LET prev_user_data == lst[CHOOSE k \in same : \A j \in same : j <= k]
               prev_pos == IndexOf(lst, prev_user_data)
           IN  [lst EXCEPT ![prev_pos] =
                  [new_user EXCEPT !.join_retries = prev_user_data.join_retries]]

\* Lines 799-808 with a retry count that starts at 0.
MutNewUserNoRetry(c, u, answer, t) ==
  [chat_id |-> c, user_id |-> u, captcha_num |-> answer, join_time |-> t,
   join_retries |-> 0, kicked_ban |-> FALSE]

\* The entry lines 799-808 build.
NewUser(c, u, answer, t) ==
  [chat_id |-> c, user_id |-> u, captcha_num |-> answer, join_time |-> t,
   join_retries |-> 1, kicked_ban |-> FALSE]

\* tlg_user_is_admin(bot, user_id, chat_id) as its caller's "if" reads it:
\* is_admin tells whether the member is among the chat's administrators,
\* lookup_ok whether bot.get_chat_administrators answered; when it raised the
\* function returns None, which the "if" of line 723 takes for false.
tlg_user_is_admin(is_admin, lookup_ok) == lookup_ok /\ is_admin

\* Lines 723-734: administrators, bot accounts and members of the ignore-list
\* are skipped.
Exempt(cfg, m) ==
  \/ tlg_user_is_admin(m.is_admin, m.lookup_ok)
  \/ m.is_bot
  \/ m.user \in cfg.Ignore_List

\* Line 739: the joiner is the requester the chat's link was granted to, and
\* the grant is not older than the challenge timeout.
Authorized(cfg, u, t) ==
  /\ cfg.Protected
  /\ cfg.Protection_Current_User = u
  /\ t <= cfg.Protection_Current_Time + cfg.Captcha_Time * 60

\* The handler's view of the state while it works through the joiners of one
\* update: the three tables, the configuration, the number n of messages the
\* bot has sent, whether an exception has ended the handler (raised), and what
\* was done for each joiner reached (log).  sent_img_msg is the handler's
\* local of that name, NoMsg while it is unbound.
JoinState ==
  [nu |-> new_users_list, jm |-> to_delete_join_messages_list,
   tm |-> to_delete_in_time_messages_list, config |-> config,
   n |-> 0, sent_img_msg |-> NoMsg, raised |-> FALSE, log |-> <<>>]

\* The body of the loop of line 674 for joiner m of chat c (lines 675-832).
\* message is update.message, has_last_name tells whether its sender's profile
\* has a last name.  m.send is the outcome of the send made for m.  Outcomes:
\*   "skipped"   administrators, bots, ignore-list (lines 723-734);
\*   "welcomed"  the authorized requester under protection (lines 739-744);
\*   "welcome_raised"  the same when send_welcome_msg raises TypeError on
\*               first_name + " " + None (line 302);
\*   "kick"      any other joiner under protection: kick_user calls
\*               tlg_kick_user and then raises NameError in every branch, lang
\*               being no name of its scope (lines 310-338);
\*   "disabled"  challenges are not enabled (lines 761-764);
\*   "nosend"    bot.send_photo raised (lines 784-796);
\*   "send_raised"  it raised "Timed out" and line 786 reads sent_img_msg
\*               while it is unbound: UnboundLocalError;
\*   "admitted"  the challenge is sent and the member registered; also after
\*               "Timed out" when sent_img_msg is bound by an earlier joiner
\*               of the update, whose message is then registered once more.
\* cleaned is the artifact list as the loop of lines 750-759 leaves it.
JoinMemberFrom(st, c, message, has_last_name, m, cleaned) ==
  LET sent == Msg(c, BotId, FreshId(2 + st.n))
      cfg == st.config[c]
      captcha_timeout == cfg.Captcha_Time
      done(outcome, raised) ==
        [st EXCEPT !.log = Append(@, [user |-> m.user, outcome |-> outcome]),
                   !.raised = raised]
  IN
  IF Exempt(cfg, m)
  THEN done("skipped", FALSE)
  ELSE IF Authorized(cfg, m.user, now)
  THEN IF ~has_last_name
       THEN done("welcome_raised", TRUE)
       ELSE [done("welcomed", FALSE) EXCEPT
               !.tm = IF cfg.Welcome_Msg # "-"
                      THEN tlg_send_selfdestruct_msg_in(@,
                             IF m.send = "ok" THEN sent ELSE NoMsg,
                             T_DEL_WELCOME_MSG * 60, now)
                      ELSE @,
               !.n = @ + 1,
               !.config[c].Protection_Current_User = NoUser,
               !.config[c].Protection_Current_Time = 0]
  ELSE IF cfg.Protected
  THEN done("kick", TRUE)
  ELSE IF ~cfg.Enabled
  THEN [done("disabled", FALSE) EXCEPT !.jm = cleaned]
  ELSE IF m.send = "error"
  THEN [done("nosend", FALSE) EXCEPT !.jm = cleaned]
  ELSE IF m.send = "timeout" /\ st.sent_img_msg = NoMsg
  THEN [done("send_raised", TRUE) EXCEPT !.jm = cleaned]
  ELSE LET sent_img_msg == IF m.send = "ok" THEN sent ELSE st.sent_img_msg
       IN  [done("admitted", FALSE) EXCEPT
              !.tm = tlg_msg_to_selfdestruct_in(@, sent_img_msg,
                       captcha_timeout * 60 + 30, now),
              !.nu = AdmitUser(@, NewUser(c, m.user, m.answer, now)),
              !.jm = Append(cleaned, [chat_id |-> c, user_id |-> m.user,
                                      msg_id_join0 |-> message,
                                      msg_id_join1 |-> sent_img_msg.message_id,
                                      msg_id_join2 |-> None]),
              !.sent_img_msg = sent_img_msg,
              !.n = @ + 1]

\* The body of the loop with its cleanup run in one piece.
JoinMember(st, c, message, has_last_name, m) ==
  JoinMemberFrom(st, c, message, has_last_name, m,
                 RemovePreviousJoinMsgs(st.jm, 1, c, m.user))

\* for join_user in update.message.new_chat_members (line 674), from the k-th
\* joiner on; an exception ends the handler.
RECURSIVE JoinLoop(_, _, _, _, _, _)
JoinLoop(st, c, message, has_last_name, joiners, k) ==
  IF k > Len(joiners) \/ st.raised THEN st
  ELSE JoinLoop(JoinMember(st, c, message, has_last_name, joiners[k]),
                c, message, has_last_name, joiners, k + 1)

\* The members of joiners join chat c in one update, sent by the first of
\* them.  ev records the first joiner and whether they were admitted, who the
\* joiners are (members), and what was done for those the loop reached (log).
msg_new_user(c, joiners, has_last_name) ==
  LET message == Msg(c, joiners[1].user, FreshId(1))
      r == JoinLoop(JoinState, c, message, has_last_name, joiners, 1)
  IN
  /\ new_users_list' = r.nu
  /\ to_delete_join_messages_list' = r.jm
  /\ to_delete_in_time_messages_list' = r.tm
  /\ config' = r.config
  /\ ev' = [op |-> "join", chat |-> c, user |-> joiners[1].user,
            answer |-> joiners[1].answer,
            admitted |-> r.log[1].outcome = "admitted",
            members |-> [k \in 1..Len(joiners) |->
                           [user |-> joiners[k].user,
                            is_admin |-> joiners[k].is_admin,
                            is_bot |-> joiners[k].is_bot,
                            send |-> joiners[k].send]],
            log |-> r.log]
  /\ UNCHANGED <<procs, now, sweep_pc>>

\* The joins the model draws: a human member whose challenge is sent or not,
\* an administrator, a bot account.
JoinInputs ==
  [is_admin : {FALSE}, is_bot : {FALSE}, answer : Answers, send : {"ok"}]
  \cup [is_admin : {FALSE}, is_bot : {FALSE},
        answer : {CHOOSE a \in Answers : TRUE}, send : {"timeout", "error"}]
  \cup [is_admin : {TRUE}, is_bot : {FALSE},
        answer : {CHOOSE a \in Answers : TRUE}, send : {"ok"}]
  \cup [is_admin : {FALSE}, is_bot : {TRUE},
        answer : {CHOOSE a \in Answers : TRUE}, send : {"ok"}]

\* Member u as a joiner whose administrator lookup answers.
Joiner(u, in) ==
  [user |-> u, is_admin |-> in.is_admin, lookup_ok |-> TRUE,
   is_bot |-> in.is_bot, answer |-> in.answer, send |-> in.send]

\* One member joins, by themselves.
JoinEvent(members, inputs) ==
  \E c \in Chats, u \in members, in \in inputs :
    msg_new_user(c, <<Joiner(u, in)>>, TRUE)

\* The joiners of the protection model: a human member, an administrator
\* whose lookup answers or fails, a bot account.
ProtectJoiners ==
  { m \in [user : Users, is_admin : BOOLEAN, lookup_ok : BOOLEAN,
           is_bot : BOOLEAN, answer : {CHOOSE a \in Answers : TRUE},
           send : {"ok"}] :
      /\ ~m.lookup_ok => m.is_admin
      /\ m.is_bot => ~m.is_admin }

\* One member joins, or two human members are added in one update.
ProtectJoinEvent ==
  \E c \in Chats, has_last_name \in BOOLEAN :
    \/ \E m \in ProtectJoiners : msg_new_user(c, <<m>>, has_last_name)
    \/ \E m1, m2 \in ProtectJoiners :
         /\ m1.user # m2.user
         /\ ~m1.is_admin /\ ~m1.is_bot /\ ~m2.is_admin /\ ~m2.is_bot
         /\ msg_new_user(c, <<m1, m2>>, has_last_name)

(***************************************************************************)
(* request_group_link (the "p<chat>" button of the private chat)           *)
(***************************************************************************)
\* The chat id of the private chat with member u (group ids are negative in
\* the transport, so the two never meet).
PrivateChat(u) == 100 + u

\* Lines 351-358 with the slot handed to every requester who does not hold it.
MutRequestGrantsAlways(c, u, send_ok) ==
  /\ config' = [config EXCEPT ![c].Protection_Current_User = u,
                              ![c].Protection_Current_Time = now]
  /\ to_delete_in_time_messages_list' =
       IF get_chat_config(c, "Protection_Current_User") # u
       THEN tlg_send_selfdestruct_msg_in(to_delete_in_time_messages_list,
              IF send_ok THEN Msg(100 + u, BotId, FreshId(1)) ELSE NoMsg,
              T_DEL_MSG * 60, now)
       ELSE to_delete_in_time_messages_list
  /\ ev' = [op |-> "request", chat |-> c, user |-> u, granted |-> TRUE]
  /\ UNCHANGED <<procs, now, sweep_pc, new_users_list, to_delete_join_messages_list>>

\* User u asks for the link of chat c.  The slot is granted when it is empty
\* or belongs to another user whose grant has timed out (lines 351-358);
\* a requester who holds the slot already finds bot_msg unbound at line 363,
\* and the exception is dropped (line 365).
request_group_link(c, u, send_ok) ==
  LET current_user == get_chat_config(c, "Protection_Current_User")
      current_user_time == get_chat_config(c, "Protection_Current_Time")
      captcha_timeout == get_chat_config(c, "Captcha_Time")
      granted == \/ current_user = NoUser
                 \/ /\ current_user # u
                    /\ now > current_user_time + captcha_timeout * 60
      sent == IF send_ok THEN Msg(PrivateChat(u), BotId, FreshId(1)) ELSE NoMsg
  IN
  /\ config' = IF granted
               THEN [config EXCEPT ![c].Protection_Current_User = u,
                                   ![c].Protection_Current_Time = now]
               ELSE config
  /\ to_delete_in_time_messages_list' =
       IF current_user # u
       THEN tlg_send_selfdestruct_msg_in(to_delete_in_time_messages_list,
              sent, T_DEL_MSG * 60, now)
       ELSE to_delete_in_time_messages_list
  /\ ev' = [op |-> "request", chat |-> c, user |-> u, granted |-> granted]
  /\ UNCHANGED <<procs, now, sweep_pc, new_users_list, to_delete_join_messages_list>>

\* The button is offered for the chats with protection on (lines 282-295).
RequestEvent ==
  \E c \in Chats, u \in Users, send_ok \in BOOLEAN :
    get_chat_config(c, "Protected") /\ request_group_link(c, u, send_ok)


(***************************************************************************)
(* msg_nocmd (group chats)                                                 *)
(***************************************************************************)
\* The URL detector CONST["REGEX_URLS"], on the texts of the model.
HasUrl(s) == Contains(<<".", "c", "o", "m">>, Lower(s))

\* Line 971 with the comparison case-sensitive.
MutSolvesCaseSensitive(captcha_num, msg_text) == Contains(captcha_num, msg_text)

\* Line 971: new_user["captcha_num"].lower() in msg_text.lower()
Solves(captcha_num, msg_text) == Contains(Lower(captcha_num), Lower(msg_text))

\* The first artifact record of (c, u), 0 when there is none.
FindJoinMsgs(lst, c, u) ==
  IF \E k \in 1..Len(lst) : lst[k].user_id = u /\ lst[k].chat_id = c
  THEN CHOOSE k \in 1..Len(lst) :
         /\ lst[k].user_id = u /\ lst[k].chat_id = c
         /\ \A j \in 1..(k - 1) : ~(lst[j].user_id = u /\ lst[j].chat_id = c)
  ELSE 0

\* Lines 974-985: the first artifact record of (c, u) is deleted and removed.
RemoveJoinMsgs(lst, c, u) ==
  LET j == FindJoinMsgs(lst, c, u)
  IN  IF j = 0 THEN lst ELSE RemoveFirst(lst, lst[j])

\* update_to_delete_join_msg_id(c, u, "msg_id_join2", new_msg_id_value): the
\* first record of (c, u) gets the new id and moves to the end of the list.
update_to_delete_join_msg_id(lst, c, u, new_msg_id_value) ==
  LET i == FindJoinMsgs(lst, c, u)
  IN  IF i = 0 THEN lst
      ELSE LET msg == [lst[i] EXCEPT !.msg_id_join2 = new_msg_id_value]
               upd == [lst EXCEPT ![i] = msg]
           IN  Append(RemoveFirst(upd, msg), msg)

\* Lines 991-992: the solved entry leaves the registry.
ResolveEntry(lst, new_user) == RemoveFirst(lst, new_user)

\* Lines 993-1007: send_welcome_msg, which raises at line 302 for a sender
\* without a last name, comes first; tlg_restrict_user is called after it when
\* the chat's Restrict_Non_Text is set.
RestrictsAfterSolve(c, has_last_name) ==
  has_last_name /\ get_chat_config(c, "Restrict_Non_Text")

\* Lines 1020 and 1032 with the message registered for deletion at once.
MutRegisterWrongAnswerNow(lst, msg, t) ==
  tlg_msg_to_selfdestruct_in(lst, msg, 0, t)

\* Lines 1020 and 1032: tlg_msg_to_selfdestruct_in(msg, 1), the wrong answer
\* is promised for removal in one minute.
RegisterWrongAnswer(lst, msg, t) ==
  tlg_msg_to_selfdestruct_in(lst, msg, 1 * 60, t)

\* Lines 909-911 (and 851-853) with the handler returning always.
MutHandlerEnabledNever(c) == FALSE

\* Lines 909-911 (and 851-853): the handler returns unless the chat has
\* challenges enabled.
HandlerEnabled(c) == get_chat_config(c, "Enabled")

\* Member u sends text msg_text in chat c.  has_last_name: the sender's profile
\* has a last name (send_welcome_msg concatenates it); send_ok: the notice or
\* welcome send succeeds; rm_result: tlg_delete_msg's result for the message.
\* ev records whether tlg_delete_msg was called on the message (attempt),
\* what became of the bot's answer: "none" (nothing sent), "failed", "sent",
\* and whether tlg_restrict_user was called for the sender (restricted).
msg_nocmd(c, u, msg_text, has_last_name, send_ok, rm_result) ==
  LET msg == Msg(c, u, FreshId(1))
      sent == IF send_ok THEN Msg(c, BotId, FreshId(2)) ELSE NoMsg
      i == FindUser(new_users_list, c, u)
      new_user == new_users_list[i]
      captcha_timeout == get_chat_config(c, "Captcha_Time")
      notice == IF send_ok THEN "sent" ELSE "failed"
      base == [op |-> "text", chat |-> c, user |-> u, text |-> msg_text,
               kind |-> "ignored", attempt |-> FALSE, rm_result |-> 0,
               notice |-> "none", restricted |-> FALSE]
  IN
  /\ UNCHANGED <<procs, now, config, sweep_pc>>
  /\ IF ~HandlerEnabled(c) \/ i = 0
     THEN /\ UNCHANGED lists
          /\ ev' = base
     ELSE IF Solves(new_user.captcha_num, msg_text)
     THEN \* lines 971-1007
          /\ to_delete_join_messages_list' =
               RemoveJoinMsgs(to_delete_join_messages_list, c, u)
          /\ new_users_list' = ResolveEntry(new_users_list, new_user)
          /\ to_delete_in_time_messages_list' =
               IF has_last_name /\ get_chat_config(c, "Welcome_Msg") # "-"
               THEN tlg_send_selfdestruct_msg_in(to_delete_in_time_messages_list,
                      sent, T_DEL_WELCOME_MSG * 60, now)
               ELSE to_delete_in_time_messages_list
          /\ ev' = [base EXCEPT !.kind = "solved",
                                !.restricted =
                                   RestrictsAfterSolve(c, has_last_name),
                                !.notice = IF has_last_name
                                              /\ get_chat_config(c, "Welcome_Msg") # "-"
                                           THEN notice ELSE "none"]
     ELSE IF Len(msg_text) = 4 \/ is_int(msg_text)
     THEN \* lines 1011-1032
          /\ to_delete_join_messages_list' =
               update_to_delete_join_msg_id(to_delete_join_messages_list, c, u,
                                            SentId(sent))
          /\ to_delete_in_time_messages_list' =
               RegisterWrongAnswer(
                 tlg_send_selfdestruct_msg_in(to_delete_in_time_messages_list,
                   sent, T_DEL_MSG * 60, now),
                 msg, now)
          /\ UNCHANGED new_users_list
          /\ ev' = [base EXCEPT !.kind = "wrong", !.notice = notice]
     ELSE IF HasUrl(msg_text) \/ HasAlias(msg_text)
     THEN \* lines 1055-1067: bot_msg is bound only for rm_result 1 and -2; for
          \* the other results line 1067 raises and no notice is sent.
          /\ to_delete_in_time_messages_list' =
               IF rm_result \in {1, -2}
               THEN tlg_send_selfdestruct_msg_in(to_delete_in_time_messages_list,
                      sent, captcha_timeout * 60, now)
               ELSE to_delete_in_time_messages_list
          /\ UNCHANGED <<new_users_list, to_delete_join_messages_list>>
          /\ ev' = [base EXCEPT !.kind = "spam", !.attempt = TRUE,
                                !.rm_result = rm_result,
                                !.notice = IF rm_result \in {1, -2}
                                           THEN notice ELSE "none"]
     ELSE /\ UNCHANGED lists
          /\ ev' = [base EXCEPT !.kind = "other"]

\* The text messages the model draws.  The sender's last name matters to a
\* text that can solve a challenge, the deletion result to one that is spam.
TextInputs ==
  { in \in [msg_text : Texts, has_last_name : BOOLEAN, send_ok : BOOLEAN,
            rm_result : {1, 0, -1, -2}] :
      /\ (\A a \in Answers : ~Solves(a, in.msg_text)) => in.has_last_name
      /\ ~(HasUrl(in.msg_text) \/ HasAlias(in.msg_text)) => in.rm_result = 1 }

TextEvent(members, inputs) ==
  \E c \in Chats, u \in members, in \in inputs :
    msg_nocmd(c, u, in.msg_text, in.has_last_name, in.send_ok, in.rm_result)

(***************************************************************************)
(* msg_notext                                                              *)
(***************************************************************************)
\* Member u sends a photo, sticker, ... in chat c.  ev records whether
\* tlg_delete_msg was called on the message (deleted) and what became of the
\* notice: "none" (nothing sent), "failed", "sent".
msg_notext(c, u, send_ok) ==
  LET sent == IF send_ok THEN Msg(c, BotId, FreshId(1)) ELSE NoMsg
      i == FindUser(new_users_list, c, u)
  IN
  /\ UNCHANGED <<procs, now, config, sweep_pc, new_users_list,
                 to_delete_join_messages_list>>
  /\ IF ~HandlerEnabled(c) \/ i = 0
     THEN /\ UNCHANGED to_delete_in_time_messages_list
          /\ ev' = [op |-> "notext", chat |-> c, user |-> u, deleted |-> FALSE,
                    notice |-> "none"]
     ELSE /\ to_delete_in_time_messages_list' =
               tlg_send_selfdestruct_msg_in(to_delete_in_time_messages_list,
                 sent, T_DEL_MSG * 60, now)
          /\ ev' = [op |-> "notext", chat |-> c, user |-> u, deleted |-> TRUE,
                    notice |-> IF send_ok THEN "sent" ELSE "failed"]

NoTextEvent(members) ==
  \E c \in Chats, u \in members, send_ok \in BOOLEAN : msg_notext(c, u, send_ok)

(***************************************************************************)
(* button_request_captcha (group chats)                                    *)
(***************************************************************************)
\* Lines 1080-1149 with the entry written before the message is edited.
MutButtonAppliesBeforeEdit(u, owner, i, edit_ok) == owner = u /\ i # 0

\* The press reaches the assignment of line 1153: the button's callback data
\* names the presser (line 1080; the data of a challenge's button is its
\* owner's id), the presser has an entry (line 1127), and
\* bot.edit_message_media did not raise (lines 1149-1151, 1158).
ButtonApplies(u, owner, i, edit_ok) == owner = u /\ i # 0 /\ edit_ok

\* Lines 1153-1154 with the entry marked as kicked as well.
MutRequestedEntryMarksKicked(new_user, answer) ==
  [new_user EXCEPT !.captcha_num = answer, !.kicked_ban = TRUE]

\* Lines 1153-1154: new_user["captcha_num"] = captcha["number"]
RequestedEntry(new_user, answer) == [new_user EXCEPT !.captcha_num = answer]

\* Member u presses the button of the challenge sent to member owner; answer is
\* the new challenge's, edit_ok the outcome of bot.edit_message_media.
button_request_captcha(c, u, owner, answer, edit_ok) ==
  LET i == FindUser(new_users_list, c, u)
  IN
  /\ UNCHANGED <<procs, now, config, sweep_pc, to_delete_join_messages_list,
                 to_delete_in_time_messages_list>>
  /\ ev' = [op |-> "button", chat |-> c, user |-> u, owner |-> owner,
            edit_ok |-> edit_ok]
  /\ IF ButtonApplies(u, owner, i, edit_ok)
     THEN new_users_list' =
            [new_users_list EXCEPT ![i] = RequestedEntry(new_users_list[i], answer)]
     ELSE UNCHANGED new_users_list

ButtonEvent(members) ==
  \E c \in Chats, u \in members, owner \in members, answer \in Answers,
     edit_ok \in BOOLEAN :
    button_request_captcha(c, u, owner, answer, edit_ok)


(***************************************************************************)
(* cmd_enable, cmd_disable (sent in the group)                             *)
(***************************************************************************)
\* What every group command ends with (e.g. lines 1927-1928): the command
\* message and the reply are registered for self-destruction.
CommandReply(c, u, send_ok) ==
  LET message == Msg(c, u, FreshId(1))
      sent == IF send_ok THEN Msg(c, BotId, FreshId(2)) ELSE NoMsg
  IN  to_delete_in_time_messages_list' =
        tlg_send_selfdestruct_msg_in(
          tlg_msg_to_selfdestruct(to_delete_in_time_messages_list, message, now),
          sent, T_DEL_MSG * 60, now)

\* /enable and /disable by member u; is_admin is tlg_user_is_admin's result.
cmd_enable(c, u, is_admin, send_ok) ==
  /\ config' = IF is_admin /\ ~get_chat_config(c, "Enabled")
               THEN [config EXCEPT ![c].Enabled = TRUE] ELSE config
  /\ CommandReply(c, u, send_ok)
  /\ ev' = [op |-> "enable", chat |-> c, user |-> u]
  /\ UNCHANGED <<procs, now, sweep_pc, new_users_list,
                 to_delete_join_messages_list>>

cmd_disable(c, u, is_admin, send_ok) ==
  /\ config' = IF is_admin /\ get_chat_config(c, "Enabled")
               THEN [config EXCEPT ![c].Enabled = FALSE] ELSE config
  /\ CommandReply(c, u, send_ok)
  /\ ev' = [op |-> "disable", chat |-> c, user |-> u]
  /\ UNCHANGED <<procs, now, sweep_pc, new_users_list,
                 to_delete_join_messages_list>>

EnableEvent(members) ==
  \E c \in Chats, u \in members, is_admin \in BOOLEAN, send_ok \in BOOLEAN :
    \/ cmd_enable(c, u, is_admin, send_ok)
    \/ cmd_disable(c, u, is_admin, send_ok)

(***************************************************************************)
(* handle_remove_and_kicks: the sweep loop of the main thread.  Each pass  *)
(* of the loop body runs selfdestruct_messages, then                       *)
(* check_time_to_kick_not_verify_users, then sleeps.                       *)
(***************************************************************************)
\* Line 2054 with the test left out.
MutDeletionDueAlways(sent_msg, t) == TRUE

\* Line 2054: time() >= sent_msg["delete_time"]
DeletionDue(sent_msg, t) == t >= sent_msg.delete_time

\* Scheduler entries whose deletion time has come at time t.
DueDeletions(lst, t) == { e \in Range(lst) : DeletionDue(e, t) }

\* What bot.delete_message does for one entry: "ok", or one of the exceptions
\* "not_found" (Message to delete not found), "cant_delete" (Message can't be
\* deleted; send_ok tells whether the CANT_DEL_MSG notice could be sent) and
\* "error" (any other, e.g. a timeout).
DeleteOutcomes ==
  [result : {"ok", "not_found", "error"}, send_ok : {TRUE}]
  \cup [result : {"cant_delete"}, send_ok : BOOLEAN]

\* The except clauses with a send that fails left out: the exception leaves
\* the function that made the call.
MutEscapesFailedSend(o) == ~o.send_ok

\* Whether the exception of a transport call of outcome o leaves the sweep's
\* function: every call is made under "except Exception" (delete_message at
\* lines 2058-2062 and 561-563, send_message at 2066-2072, 511-520, 2130-2133
\* and 2167-2170, getChatMember, kickChatMember and unbanChatMember at
\* 579-586 and 598-606), so none does.
Escapes(o) == FALSE

\* Line 2037, while True: the stage that follows when the function returns;
\* an exception that leaves the function leaves handle_remove_and_kicks too,
\* which has no try.
AfterPass(out, following) ==
  IF \E e \in DOMAIN out : Escapes(out[e]) THEN "stopped" ELSE following

\* Lines 2059-2075 with the removal of line 2075 left out for the exception
\* "Message can't be deleted".
MutAfterDeleteKeepsRefused(lst, sent_msg, result) ==
  IF result = "cant_delete" THEN lst ELSE RemoveFirst(lst, sent_msg)

\* Lines 2059-2060 and 2074-2075: the entry is removed when the deletion
\* succeeded and in the except branch, whatever the exception.
AfterDelete(lst, sent_msg, result) == RemoveFirst(lst, sent_msg)

\* Lines 2076 and 2196: i = i + 1, whether or not the entry at i was removed.
NextIndex(i, removed) == i + 1

\* selfdestruct_messages from index i on (lines 2051-2076).  out gives the
\* transport's outcome for each due entry, n counts the notices sent so far,
\* att collects the deletion attempts (notice: a CANT_DEL_MSG notice was sent
\* and registered).
RECURSIVE SelfdestructLoop(_, _, _, _, _)
SelfdestructLoop(lst, i, out, n, att) ==
  IF i > Len(lst) THEN [lst |-> lst, att |-> att]
  ELSE
    LET sent_msg == lst[i]
    IN  IF DeletionDue(sent_msg, now)
        THEN LET o == out[sent_msg]
                 cant_del_msg == IF o.send_ok
                                 THEN Msg(sent_msg.Chat_id, BotId, FreshId(n + 1))
                                 ELSE NoMsg
                 noticed == IF o.result = "cant_delete"
                            THEN tlg_msg_to_selfdestruct(lst, cant_del_msg, now)
                            ELSE lst
                 after == AfterDelete(noticed, sent_msg, o.result)
             IN  SelfdestructLoop(after, NextIndex(i, Len(after) < Len(noticed)),
                                  out, n + 1,
                                  Append(att, [entry |-> sent_msg,
                                               result |-> o.result,
                                               notice |-> Len(noticed) > Len(lst)]))
        ELSE SelfdestructLoop(lst, i + 1, out, n, att)

selfdestruct_messages(outcomes) ==
  /\ sweep_pc = "selfdestruct"
  /\ \E out \in [DueDeletions(to_delete_in_time_messages_list, now)
                   -> outcomes] :
       LET r == SelfdestructLoop(to_delete_in_time_messages_list, 1, out, 0, <<>>)
       IN  /\ to_delete_in_time_messages_list' = r.lst
           /\ ev' = [op |-> "selfdestruct",
                     att |-> r.att]
           /\ sweep_pc' = AfterPass(out, "check")
  /\ UNCHANGED <<procs, now, config, new_users_list, to_delete_join_messages_list>>


\* Lines 2087, 2097 with the test of the time left out.
MutKickDueAnyTime(new_user, t) == ~new_user.kicked_ban

\* Lines 2087, 2097 with the chats whose challenges are disabled passed over.
MutKickDueWhenEnabled(new_user, t) ==
  /\ get_chat_config(new_user.chat_id, "Enabled")
  /\ ~new_user.kicked_ban
  /\ ~(t < new_user.join_time
           + get_chat_config(new_user.chat_id, "Captcha_Time") * 60)

\* Lines 2087, 2097: the entry is not kicked and its time has come.
KickDue(new_user, t) ==
  /\ ~new_user.kicked_ban
  /\ ~(t < new_user.join_time
           + get_chat_config(new_user.chat_id, "Captcha_Time") * 60)

\* Pending entries that are owed a kick or a ban at time t.
DueUsers(lst, t) == { e \in Range(lst) : KickDue(e, t) }

\* Lines 2105 and 2143 with the ban one retry early.
MutBanDueEarly(new_user) == ~(new_user.join_retries < 4)

\* Lines 2105 and 2143: a member who has used up the retries is banned.
BanDue(new_user) == ~(new_user.join_retries < 5)

\* Line 2091 with the hour of grace left out.
MutPurgeDueNoGrace(new_user, t) ==
  t >= new_user.join_time
       + get_chat_config(new_user.chat_id, "Captcha_Time") * 60

\* Line 2091: a kicked entry is purged an hour after its deadline.
PurgeDue(new_user, t) ==
  t >= (new_user.join_time
        + get_chat_config(new_user.chat_id, "Captcha_Time") * 60) + 3600

\* Lines 2110-2116 with the retry counted for every kick result.
MutRetriesAfterKickAlways(join_retries, kick_result) == join_retries + 1

\* Lines 2110-2116: join_retries grows when the kick succeeded.
RetriesAfterKick(join_retries, kick_result) ==
  IF kick_result = 1 THEN join_retries + 1 ELSE join_retries

\* Line 2174: new_user["kicked_ban"] = True, whatever the result.
KickedFlag(result) == TRUE

\* Lines 2180-2193, the scheduler's side: the join message of the member's
\* first artifact record is registered for self-destruction.
SweepJoinMsgs(sched, joins, c, u, t) ==
  LET j == FindJoinMsgs(joins, c, u)
  IN  IF j = 0 THEN sched
      ELSE tlg_msg_to_selfdestruct(sched, joins[j].msg_id_join0, t)

\* Lines 2186-2187: the ids handed to bot.delete_message for the member's
\* first artifact record (tlg_delete_msg makes no call for an id of None).
SweepDeleteAttempts(joins, c, u) ==
  LET j == FindJoinMsgs(joins, c, u)
  IN  IF j = 0 THEN {}
      ELSE {joins[j].msg_id_join1, joins[j].msg_id_join2} \ {None}

\* What the transport does for one timed-out member: result is tlg_kick_user's
\* or tlg_ban_user's return code (1 done, -1 not in the chat, -2 no rights,
\* 0 any other error; -3, target is an administrator, takes the same branches
\* as 0), send_ok the outcome of sending the notice.
SanctionOutcomes ==
  [result : {1, 0, -1}, send_ok : BOOLEAN] \cup [result : {-2}, send_ok : {TRUE}]

\* check_time_to_kick_not_verify_users from index i on (lines 2084-2196) on
\* the registry nu, the artifact list jm and the scheduler table tm.
RECURSIVE CheckLoop(_, _, _, _, _, _, _)
CheckLoop(nu, jm, tm, i, out, n, log) ==
  IF i > Len(nu) THEN [nu |-> nu, jm |-> jm, tm |-> tm, log |-> log]
  ELSE
    LET new_user == nu[i]
        chat_id == new_user.chat_id
    IN
    IF new_user.kicked_ban
    THEN \* lines 2087-2094
         IF PurgeDue(new_user, now)
         THEN CheckLoop(RemoveFirst(nu, new_user), jm, tm, NextIndex(i, TRUE),
                        out, n,
                        Append(log, [chat_id |-> chat_id,
                                      user_id |-> new_user.user_id,
                                      action |-> "purge", result |-> 0]))
         ELSE CheckLoop(nu, jm, tm, NextIndex(i, FALSE), out, n,
                        Append(log, [chat_id |-> chat_id,
                                      user_id |-> new_user.user_id,
                                      action |-> "keep", result |-> 0]))
    ELSE IF ~KickDue(new_user, now)
    THEN \* lines 2097-2099
         CheckLoop(nu, jm, tm, i + 1, out, n,
                   Append(log, [chat_id |-> chat_id,
                                 user_id |-> new_user.user_id,
                                 action |-> "wait", result |-> 0]))
    ELSE
      LET o == out[new_user]
          sent == IF o.send_ok THEN Msg(chat_id, BotId, FreshId(n + 1))
                  ELSE NoMsg
          jm2 == RemoveJoinMsgs(jm, chat_id, new_user.user_id)
      IN
      IF ~BanDue(new_user)
      THEN \* lines 2105-2141 and 2173-2193: kick; the notice for "no rights"
           \* is sent without self-destruction
           CheckLoop(
             [nu EXCEPT ![i] =
                [new_user EXCEPT
                   !.join_retries = RetriesAfterKick(@, o.result),
                   !.kicked_ban = KickedFlag(o.result)]],
             jm2,
             SweepJoinMsgs(
               IF o.result = -2 THEN tm
               ELSE tlg_send_selfdestruct_msg_in(tm, sent, T_DEL_MSG * 60, now),
               jm, chat_id, new_user.user_id, now),
             NextIndex(i, FALSE), out, n + 1,
             Append(log, [chat_id |-> chat_id, user_id |-> new_user.user_id,
                          action |-> "kick", result |-> o.result]))
      ELSE \* lines 2143-2193: ban; the entry leaves the registry
           CheckLoop(
             RemoveFirst(nu, new_user),
             jm2,
             SweepJoinMsgs(tm, jm, chat_id, new_user.user_id, now),
             NextIndex(i, TRUE), out, n,
             Append(log, [chat_id |-> chat_id, user_id |-> new_user.user_id,
                          action |-> "ban", result |-> o.result]))

check_time_to_kick_not_verify_users(outcomes) ==
  /\ sweep_pc = "check"
  /\ \E out \in [DueUsers(new_users_list, now) -> outcomes] :
       LET r == CheckLoop(new_users_list, to_delete_join_messages_list,
                          to_delete_in_time_messages_list, 1, out, 0, <<>>)
       IN  /\ new_users_list' = r.nu
           /\ to_delete_join_messages_list' = r.jm
           /\ to_delete_in_time_messages_list' = r.tm
           /\ ev' = [op |-> "check", log |-> r.log]
           /\ sweep_pc' = AfterPass(out, "sleep")
  /\ UNCHANGED <<procs, now, config>>

(***************************************************************************)
(* The system: the dispatcher's handlers, one at a time, and the passes of *)
(* the sweep loop.                                                         *)
(***************************************************************************)
\* The scheduler table has room for what one more update registers.
Room == Len(to_delete_in_time_messages_list) < MaxSched

Next ==
  \/ now + 60 <= MaxTimeMin * 60 /\ Sleep(60)
  \/ Room /\ JoinEvent(Users, JoinInputs)
  \/ Room /\ TextEvent(Users, TextInputs)
  \/ ButtonEvent(Users)
  \/ Room /\ EnableEvent(Users)
  \/ selfdestruct_messages(DeleteOutcomes)
  \/ check_time_to_kick_not_verify_users(SanctionOutcomes)

Spec == Init /\ [][Next]_vars

(***************************************************************************)
(* The sweep over members who let the challenge time out: a member joins   *)
(* when not in the registry or after a kick, the challenge is sent, and    *)
(* nobody answers.                                                         *)
(***************************************************************************)
\* Joins whose challenge is sent.
SentJoins ==
  [is_admin : {FALSE}, is_bot : {FALSE},
   answer : {CHOOSE a \in Answers : TRUE}, send : {"ok"}]

\* Every scheduled deletion succeeds.
Deleted == [result : {"ok"}, send_ok : {TRUE}]

\* Every result of a kick or a ban; the notice that follows is sent.
Sanctions == [result : {1, 0, -1, -2}, send_ok : {TRUE}]

\* Those of the members with no entry waiting for an answer in chat c.
NotWaiting(c, members) ==
  { u \in members : \A k \in 1..Len(new_users_list) :
      (new_users_list[k].chat_id = c /\ new_users_list[k].user_id = u)
        => new_users_list[k].kicked_ban }

\* One member, up to the ban and past the hour of grace.
NextSweep ==
  \/ (now % 3600) + 60 <= MaxSweepMin * 60 /\ Sleep(60)
  \/ now < 3600 /\ Sleep(3600)
  \/ \E c \in Chats : JoinEvent(NotWaiting(c, {1}), SentJoins)
  \/ selfdestruct_messages(Deleted)
  \/ check_time_to_kick_not_verify_users(Sanctions)

SpecSweep == Init /\ [][NextSweep]_vars

\* Two members, around the hour of grace.
NextPair ==
  \/ (now % 3600) + 60 <= MaxPairMin * 60 /\ Sleep(60)
  \/ now < 3600 /\ Sleep(3600)
  \/ \E c \in Chats : JoinEvent(NotWaiting(c, Users), SentJoins)
  \/ selfdestruct_messages(Deleted)
  \/ check_time_to_kick_not_verify_users(Sanctions)

SpecPair == Init /\ [][NextPair]_vars

(***************************************************************************)
(* Join-protection: the configuration documents hold what an earlier run   *)
(* stored (cmd_protection itself stops at line 2009, where chat_type is no *)
(* name of its scope); members join alone or in pairs, users ask for the   *)
(* link.                                                                   *)
(***************************************************************************)
ProtectConfigs ==
  [Enabled : BOOLEAN, Captcha_Time : {1}, Welcome_Msg : {"welcome"},
   Ignore_List : {{}, {2}}, Protected : BOOLEAN,
   Protection_Current_User : {NoUser}, Protection_Current_Time : {0},
   Restrict_Non_Text : {TRUE}]

InitProtect ==
  /\ now = 0
  /\ config \in [Chats -> ProtectConfigs]
  /\ new_users_list = <<>>
  /\ to_delete_join_messages_list = <<>>
  /\ to_delete_in_time_messages_list = <<>>
  /\ sweep_pc = "selfdestruct"
  /\ NoStoreCall
  /\ ev = [op |-> "init"]

ProtectRoom == Len(to_delete_in_time_messages_list) < MaxProtectLen

\* Every kick succeeds and its notice is sent.
Kicks == [result : {1}, send_ok : {TRUE}]

NextProtect ==
  \/ now + 60 <= MaxProtectMin * 60 /\ Sleep(60)
  \/ ProtectRoom /\ ProtectJoinEvent
  \/ ProtectRoom /\ RequestEvent
  \/ selfdestruct_messages(Deleted)
  \/ check_time_to_kick_not_verify_users(Kicks)

SpecProtect == InitProtect /\ [][NextProtect]_vars

(***************************************************************************)
(* The scheduler: one member joins, sends wrong answers and other content, *)
(* and the transport answers the deletions in every way.                   *)
(***************************************************************************)
SchedRoom == Len(to_delete_in_time_messages_list) < MaxSchedLen

\* Texts that are a wrong answer.
WrongTexts ==
  [msg_text : { t \in Texts : (Len(t) = 4 \/ is_int(t))
                              /\ \A a \in Answers : ~Solves(a, t) },
   has_last_name : {TRUE}, send_ok : BOOLEAN, rm_result : {1}]

NextSched ==
  \/ now + 60 <= MaxSchedMin * 60 /\ Sleep(60)
  \/ SchedRoom /\ JoinEvent({1}, SentJoins)
  \/ SchedRoom /\ TextEvent({1}, WrongTexts)
  \/ SchedRoom /\ NoTextEvent({1})
  \/ SchedRoom /\ EnableEvent({1})
  \/ selfdestruct_messages(DeleteOutcomes)
  \/ check_time_to_kick_not_verify_users(Sanctions)

SpecSched == Init /\ [][NextSched]_vars

(***************************************************************************)
(* Properties.                                                             *)
(***************************************************************************)
\* The entries of member u of chat c in the registry lst.
EntriesOf(lst, c, u) ==
  { k \in 1..Len(lst) : lst[k].chat_id = c /\ lst[k].user_id = u }

\* The deadline of a pending entry: join time + chat timeout.
Deadline(e) == e.join_time + config[e.chat_id].Captcha_Time * 60

\* C1: in every reachable state the registry holds at most one entry per
\* (chat id, member id), whatever joins, messages, button presses and sweep
\* passes came before, a join by a pending or kicked member included.
C1_OneEntryPerMember ==
  \A c \in Chats, u \in Users :
    Cardinality(EntriesOf(new_users_list, c, u)) <= 1

\* A kicked member has joined again while another member is pending too.
C1_Witness ==
  /\ ev.op = "join" /\ ev.admitted
  /\ Len(new_users_list) = 2
  /\ \E k \in EntriesOf(new_users_list, ev.chat, ev.user) :
       new_users_list[k].join_retries > 1

\* C2: when a member with an entry in the registry joins the chat again and
\* the new challenge is sent, the entry is replaced where it stands: the retry
\* count is the old entry's, the join time is the time of the new join, the
\* kicked flag is cleared, the answer is the new challenge's, and no other
\* entry changes.
C2_RejoinReplacesInPlace ==
  [][ (/\ ev'.op = "join" /\ ev'.admitted
       /\ FindUser(new_users_list, ev'.chat, ev'.user) # 0)
      => LET i == FindUser(new_users_list, ev'.chat, ev'.user)
         IN  /\ Len(new_users_list') = Len(new_users_list)
             /\ new_users_list'[i] =
                  [chat_id |-> ev'.chat, user_id |-> ev'.user,
                   captcha_num |-> ev'.answer, join_time |-> now,
                   join_retries |-> new_users_list[i].join_retries,
                   kicked_ban |-> FALSE]
             /\ \A k \in 1..Len(new_users_list) :
                  k # i => new_users_list'[k] = new_users_list[k] ]_vars

\* A member kicked at retry 1 has joined again: the entry holds retry 2, the
\* new join time and the new answer, and is not marked kicked.
C2_Witness ==
  /\ ev.op = "join" /\ ev.admitted /\ now > 0
  /\ \E k \in EntriesOf(new_users_list, ev.chat, ev.user) :
       /\ new_users_list[k].join_retries = 2
       /\ new_users_list[k].join_time = now
       /\ ~new_users_list[k].kicked_ban
       /\ new_users_list[k].captcha_num = ev.answer

\* What a sweep pass did to the entries it examined, as pairs of the entry
\* before the pass and the log record.
Examined ==
  { [e |-> new_users_list[i], a |-> ev'.log[k]] :
      i \in 1..Len(new_users_list), k \in 1..Len(ev'.log) }

\* The entries a sweep pass tried to kick or ban.
Sanctioned ==
  { x \in Examined : /\ x.a.chat_id = x.e.chat_id /\ x.a.user_id = x.e.user_id
                     /\ x.a.action \in {"kick", "ban"} }

\* C3: an entry with retry count 4 whose deadline has passed is kicked, not
\* banned, and stays in the registry, with retry count 5 once the kick is
\* done; an entry with retry count 5 (the member joined again) whose deadline
\* has passed gets a ban attempt and leaves the registry.
C3_KickAtFourBanAtFive ==
  [][ ev'.op = "check" =>
      \A x \in Sanctioned :
        LET after == EntriesOf(new_users_list', x.e.chat_id, x.e.user_id)
        IN  /\ x.e.join_retries = 4 =>
                 /\ x.a.action = "kick"
                 /\ after # {}
                 /\ x.a.result = 1 =>
                      \A j \in after : new_users_list'[j].join_retries = 5
            /\ x.e.join_retries = 5 =>
                 /\ x.a.action = "ban"
                 /\ after = {} ]_vars

\* The member was kicked four times, joined again each time, and the fifth
\* timeout has banned them: the registry is empty again.
C3_Witness ==
  /\ ev.op = "check"
  /\ \E k \in 1..Len(ev.log) : ev.log[k].action = "ban"
  /\ new_users_list = <<>>

\* The text contains the answer, whatever the case of the letters.
ContainsAnswer(answer, text) == Contains(Lower(answer), Lower(text))

\* C4 as stated: a text message of a pending member that contains the
\* entry's answer (case-insensitive, any surrounding text) removes the entry
\* and the member's artifact record.
C4_AnswerAlwaysResolves ==
  [][ (/\ ev'.op = "text"
       /\ FindUser(new_users_list, ev'.chat, ev'.user) # 0
       /\ ContainsAnswer(
            new_users_list[FindUser(new_users_list, ev'.chat, ev'.user)]
              .captcha_num, ev'.text))
      => /\ EntriesOf(new_users_list', ev'.chat, ev'.user) = {}
         /\ EntriesOf(to_delete_join_messages_list', ev'.chat, ev'.user) = {}
    ]_vars

\* C4 amended: in a chat whose challenges are enabled, a text message of a
\* pending member that contains the entry's answer (case-insensitive, any
\* surrounding text) removes the entry and the member's artifact record, and
\* leaves every other entry alone.
C4_AnswerResolvesWhenEnabled ==
  [][ (/\ ev'.op = "text"
       /\ config[ev'.chat].Enabled
       /\ FindUser(new_users_list, ev'.chat, ev'.user) # 0
       /\ ContainsAnswer(
            new_users_list[FindUser(new_users_list, ev'.chat, ev'.user)]
              .captcha_num, ev'.text))
      => /\ EntriesOf(new_users_list', ev'.chat, ev'.user) = {}
         /\ EntriesOf(to_delete_join_messages_list', ev'.chat, ev'.user) = {}
         /\ \A k \in 1..Len(new_users_list) :
              new_users_list[k].user_id # ev'.user
                => new_users_list[k] \in Range(new_users_list')
    ]_vars

\* The answer AB12 was given as "ok Ab12!" and the entry is gone.
C4_Witness ==
  /\ ev.op = "text" /\ ev.kind = "solved"
  /\ ev.text = <<"o", "k", " ", "A", "b", "1", "2", "!">>
  /\ EntriesOf(new_users_list, ev.chat, ev.user) = {}
  /\ EntriesOf(to_delete_join_messages_list, ev.chat, ev.user) = {}

\* C5: in each sweep pass every entry that is not marked kicked and whose
\* deadline has passed when the pass starts gets a kick or ban attempt in
\* that pass, whatever the pass purges or bans before it.
C5_EveryDueEntryAttempted ==
  [][ ev'.op = "check" =>
      \A i \in 1..Len(new_users_list) :
        (~new_users_list[i].kicked_ban /\ now >= Deadline(new_users_list[i]))
          => \E x \in Sanctioned : x.e = new_users_list[i] ]_vars

\* The entries a sweep pass tried to kick.
Kicked == { x \in Sanctioned : x.a.action = "kick" }

\* C6 as stated: a kick attempt on an entry with retry count below 5 raises
\* the retry count by exactly one and leaves the entry in the registry, for
\* every outcome of the attempt.
C6_RetryGrowsForEveryOutcome ==
  [][ ev'.op = "check" =>
      \A x \in Kicked :
        LET after == EntriesOf(new_users_list', x.e.chat_id, x.e.user_id)
        IN  /\ x.e.join_retries < 5
            /\ after # {}
            /\ \A j \in after :
                 new_users_list'[j].join_retries = x.e.join_retries + 1 ]_vars

\* C6 amended: a kick attempt on an entry with retry count below 5 leaves
\* the entry in the registry for every outcome of the attempt; the retry count
\* grows by exactly one when the kick succeeded and is unchanged for every
\* other outcome (member already gone, no permission, other error).
C6_RetryGrowsOnSuccess ==
  [][ ev'.op = "check" =>
      \A x \in Kicked :
        LET after == EntriesOf(new_users_list', x.e.chat_id, x.e.user_id)
        IN  /\ x.e.join_retries < 5
            /\ after # {}
            /\ \A j \in after :
                 new_users_list'[j].join_retries =
                   IF x.a.result = 1 THEN x.e.join_retries + 1
                   ELSE x.e.join_retries ]_vars

\* A kick that failed came after one that succeeded: the retry count is
\* still 2.
C6_Witness ==
  /\ ev.op = "check"
  /\ \E k \in 1..Len(ev.log) :
       /\ ev.log[k].action = "kick" /\ ev.log[k].result # 1
       /\ \E j \in EntriesOf(new_users_list, ev.log[k].chat_id,
                               ev.log[k].user_id) :
            new_users_list[j].join_retries = 2

\* C7: a kick or ban that fails for lack of permission leaves the entry
\* pending, in the registry and not marked kicked, for the next pass.
C7_NoPermissionStaysPending ==
  [][ ev'.op = "check" =>
      \A x \in Sanctioned :
        x.a.result = -2 =>
          LET after == EntriesOf(new_users_list', x.e.chat_id, x.e.user_id)
          IN  /\ after # {}
              /\ \A j \in after : ~new_users_list'[j].kicked_ban ]_vars

\* C8: the sweep never removes an entry marked kicked before join time +
\* chat timeout + 1 hour, removes it in the first pass that examines it from
\* then on, and never kicks or bans an entry whose kicked flag is set.
C8_KickedEntryKeptForAnHour ==
  [][ ev'.op = "check" =>
      /\ \A i \in 1..Len(new_users_list) :
           (new_users_list[i].kicked_ban
              /\ now < Deadline(new_users_list[i]) + 3600)
             => new_users_list[i] \in Range(new_users_list')
      /\ \A x \in Examined :
           (/\ x.a.chat_id = x.e.chat_id /\ x.a.user_id = x.e.user_id
            /\ x.e.kicked_ban)
             => /\ x.a.action \notin {"kick", "ban"}
                /\ now >= Deadline(x.e) + 3600
                     => x.e \notin Range(new_users_list') ]_vars

\* A kicked entry was kept by the passes of the first hour and removed by
\* the pass after it.
C8_Witness ==
  /\ ev.op = "check" /\ now >= 3600
  /\ \E k \in 1..Len(ev.log) : ev.log[k].action = "purge"
  /\ new_users_list = <<>>

\* C9: in each pass of the self-destruct sweep every scheduled deletion
\* whose time has come when the pass starts gets exactly one deletion
\* attempt, whatever the pass removes before it.
C9_EveryDueDeletionAttemptedOnce ==
  [][ ev'.op = "selfdestruct" =>
      \A e \in Range(to_delete_in_time_messages_list) :
        now >= e.delete_time =>
          Cardinality({ k \in 1..Len(ev'.att) : ev'.att[k].entry = e }) = 1
    ]_vars

\* C10: the self-destruct sweep never attempts and never removes a scheduled
\* deletion whose time has not come; one whose time has come and whose
\* deletion succeeds, or fails with "not found" or "can't be deleted", has
\* left the table when the pass ends.
C10_OnlyDueDeletionsLeave ==
  [][ /\ \A e \in Range(to_delete_in_time_messages_list) :
           now < e.delete_time
             => e \in Range(to_delete_in_time_messages_list')
      /\ ev'.op = "selfdestruct" =>
           \A k \in 1..Len(ev'.att) :
             /\ now >= ev'.att[k].entry.delete_time
             /\ ev'.att[k].entry \in Range(to_delete_in_time_messages_list)
             /\ ev'.att[k].result \in {"ok", "not_found", "cant_delete"}
                  => ev'.att[k].entry
                       \notin Range(to_delete_in_time_messages_list') ]_vars

\* A pass has deleted one message, was refused another, and left in the table
\* an entry whose time has not come.
C10_Witness ==
  /\ ev.op = "selfdestruct"
  /\ \E k \in 1..Len(ev.att) : ev.att[k].result = "cant_delete"
  /\ \E k \in 1..Len(ev.att) : ev.att[k].result = "ok"
  /\ \E e \in Range(to_delete_in_time_messages_list) : now < e.delete_time

\* C11: a scheduled deletion that fails for a transient reason (an exception
\* that is neither "not found" nor "can't be deleted", e.g. a timeout) leaves
\* its entry in the scheduler table, so that the next pass tries it again.
C11_TransientFailureKeepsEntry ==
  [][ ev'.op = "selfdestruct" =>
      \A k \in 1..Len(ev'.att) :
        ev'.att[k].result = "error"
          => ev'.att[k].entry \in Range(to_delete_in_time_messages_list')
    ]_vars

\* The notices a pass sent and registered.
Notices(att) == { k \in 1..Len(att) : att[k].notice }

\* C12: when a scheduled deletion fails with "can't be deleted" the pass
\* removes the failed entry and sends one notice; a notice that was sent is
\* registered as exactly one new entry, due T_DEL_MSG minutes later, so the
\* table has lost one entry for every attempt and gained one for every notice
\* sent, and a failure never makes it longer.
C12_RefusedDeletionNeverGrowsTable ==
  [][ ev'.op = "selfdestruct" =>
      LET att == ev'.att
          old == to_delete_in_time_messages_list
          new == to_delete_in_time_messages_list'
          added == { j \in 1..Len(new) : new[j] \notin Range(old) }
      IN  /\ \A k \in 1..Len(att) :
                /\ att[k].notice => att[k].result = "cant_delete"
                /\ att[k].result = "cant_delete"
                     => att[k].entry \notin Range(new)
          /\ Cardinality(added) = Cardinality(Notices(att))
          /\ \A j \in added :
                /\ new[j].User_id = BotId
                /\ new[j].delete_time = now + T_DEL_MSG * 60
          /\ Len(new) = Len(old) - Len(att) + Cardinality(Notices(att))
          /\ Len(new) <= Len(old)
    ]_vars

\* A pass was refused a deletion, sent the notice and registered it.
C12_Witness ==
  /\ ev.op = "selfdestruct"
  /\ \E k \in 1..Len(ev.att) :
       /\ ev.att[k].result = "cant_delete"
       /\ ev.att[k].notice
       /\ ev.att[k].entry \notin Range(to_delete_in_time_messages_list)
  /\ \E e \in Range(to_delete_in_time_messages_list) :
       e.User_id = BotId /\ e.delete_time = now + T_DEL_MSG * 60

\* The sender of the text message of step ev' has a pending entry in the chat,
\* and the text does not contain the entry's answer.
WrongFromPending ==
  /\ ev'.op = "text"
  /\ EntriesOf(new_users_list, ev'.chat, ev'.user) # {}
  /\ \A k \in EntriesOf(new_users_list, ev'.chat, ev'.user) :
       ~Solves(new_users_list[k].captcha_num, ev'.text)

\* The scheduler entries a step added for messages of member u in chat c.
AddedFor(c, u) ==
  { e \in Range(to_delete_in_time_messages_list') :
      /\ e \notin Range(to_delete_in_time_messages_list)
      /\ e.Chat_id = c /\ e.User_id = u }

\* The handler kept the wrong answer for one minute: no deletion attempt, one
\* new scheduler entry for the message due 60 seconds from now, and the
\* pending registry as it was.
KeptForOneMinute ==
  /\ ~ev'.attempt
  /\ Cardinality(AddedFor(ev'.chat, ev'.user)) = 1
  /\ \A e \in AddedFor(ev'.chat, ev'.user) : e.delete_time = now + 60
  /\ new_users_list' = new_users_list

\* C13 as stated: a message from a pending member that does not contain the
\* expected answer and is purely numeric or exactly 4 characters long is not
\* deleted by the handler but registered for deletion exactly one minute
\* later, and the pending entry is unchanged.
C13_WrongAnswerKeptOneMinute ==
  [][ WrongFromPending /\ (is_int(ev'.text) \/ Len(ev'.text) = 4)
        => KeptForOneMinute ]_vars

\* C13 amended: the same in a chat whose challenges are enabled.
C13_WrongAnswerKeptOneMinuteWhenEnabled ==
  [][ ( /\ WrongFromPending
        /\ is_int(ev'.text) \/ Len(ev'.text) = 4
        /\ get_chat_config(ev'.chat, "Enabled") )
      => KeptForOneMinute ]_vars

\* A pending member has just sent a wrong numeric answer, which now waits in
\* the scheduler for one minute.
C13_Witness ==
  /\ ev.op = "text" /\ ev.kind = "wrong"
  /\ is_int(ev.text)
  /\ EntriesOf(new_users_list, ev.chat, ev.user) # {}
  /\ \E e \in Range(to_delete_in_time_messages_list) :
       e.Chat_id = ev.chat /\ e.User_id = ev.user /\ e.delete_time = now + 60

\* The text message of step ev' contains a URL and comes, in a chat with
\* challenges enabled, from a member without pending entry.
UrlFromNonPending ==
  /\ ev'.op = "text"
  /\ HasUrl(ev'.text)
  /\ get_chat_config(ev'.chat, "Enabled")
  /\ EntriesOf(new_users_list, ev'.chat, ev'.user) = {}

\* The handler sent an answer, and one that arrived is registered as a new
\* scheduler entry due when the chat's challenge timeout has passed.
NoticeForTimeout ==
  /\ ev'.notice # "none"
  /\ ev'.notice = "sent" =>
       \E e \in AddedFor(ev'.chat, BotId) :
         e.delete_time = now + get_chat_config(ev'.chat, "Captcha_Time") * 60

C15_SpamNoticeForEveryDeleteOutcome ==
  [][ ( /\ WrongFromPending
        /\ ~is_int(ev'.text) /\ Len(ev'.text) # 4
        /\ HasUrl(ev'.text) \/ HasAlias(ev'.text)
        /\ get_chat_config(ev'.chat, "Enabled") )
      => ev'.attempt /\ NoticeForTimeout ]_vars

\* The sender of the non-text message of step ev' has a pending entry in the
\* chat.
NoTextFromPending ==
  /\ ev'.op = "notext"
  /\ EntriesOf(new_users_list, ev'.chat, ev'.user) # {}

\* The handler tried to delete the message and sent a notice; a notice that
\* arrived is registered for T_DEL_MSG minutes; the pending registry and the
\* artifact table are as they were.
DeletedWithNotice ==
  /\ ev'.deleted
  /\ ev'.notice # "none"
  /\ ev'.notice = "sent" =>
       \E e \in AddedFor(ev'.chat, BotId) :
         e.delete_time = now + T_DEL_MSG * 60
  /\ UNCHANGED <<new_users_list, to_delete_join_messages_list>>

\* C16 as stated: every non-text message sent in a group by a member with a
\* pending entry for that group gets a deletion attempt and a notice,
\* whatever the chat's Enabled setting, and the pending registry and the
\* artifact table are unchanged.
C16_NonTextAlwaysDeleted ==
  [][ NoTextFromPending => DeletedWithNotice ]_vars

\* C16 amended: the same provided the chat's Enabled setting is true.
C16_NonTextDeletedWhenEnabled ==
  [][ (NoTextFromPending /\ get_chat_config(ev'.chat, "Enabled"))
      => DeletedWithNotice ]_vars

\* A pending member has just sent a non-text message to a chat with
\* challenges enabled, and the notice is registered.
C16_Witness ==
  /\ ev.op = "notext" /\ ev.deleted /\ ev.notice = "sent"
  /\ get_chat_config(ev.chat, "Enabled")
  /\ EntriesOf(new_users_list, ev.chat, ev.user) # {}
  /\ \E e \in Range(to_delete_in_time_messages_list) :
       e.User_id = BotId /\ e.delete_time = now + T_DEL_MSG * 60

\* The indices of the pending registry whose entry a step changed.
ChangedEntries ==
  { k \in 1..Len(new_users_list) : new_users_list'[k] # new_users_list[k] }

\* C17: a "request another challenge" press in a group changes at most one
\* thing in the pending registry, the expected answer of the presser's own
\* entry for that chat; its join time, retry count and kicked flag are
\* unchanged, and a press by a member other than the one the challenge was
\* issued for changes no entry.
C17_ButtonChangesOnlyOwnAnswer ==
  [][ ev'.op = "button" =>
      /\ Len(new_users_list') = Len(new_users_list)
      /\ Cardinality(ChangedEntries) <= 1
      /\ \A k \in ChangedEntries :
           /\ new_users_list[k].chat_id = ev'.chat
           /\ new_users_list[k].user_id = ev'.user
           /\ new_users_list'[k] =
                [new_users_list[k] EXCEPT
                   !.captcha_num = new_users_list'[k].captcha_num]
      /\ ev'.owner # ev'.user => new_users_list' = new_users_list
    ]_vars

\* A member has just obtained another challenge while a second member was
\* pending: the registry holds two entries with different answers.
C17_Witness ==
  /\ ev.op = "button" /\ ev.edit_ok /\ ev.owner = ev.user
  /\ Len(new_users_list) = 2
  /\ new_users_list[1].captcha_num # new_users_list[2].captcha_num
  /\ EntriesOf(new_users_list, ev.chat, ev.user) # {}

\* C18: when the transport call that edits the challenge message fails
\* during a "request another challenge" press, the pending entry's expected
\* answer, like the rest of the registry, is left as it was.
C18_FailedEditKeepsAnswer ==
  [][ (ev'.op = "button" /\ ~ev'.edit_ok)
      => new_users_list' = new_users_list ]_vars

\* The owner of a challenge has just pressed its button and the edit failed.
C18_Witness ==
  /\ ev.op = "button" /\ ~ev.edit_ok /\ ev.owner = ev.user
  /\ EntriesOf(new_users_list, ev.chat, ev.user) # {}

\* Joiner x of chat c is exempt from admission control: an administrator, a
\* bot account, or a member of the chat's ignore-list.
IsExempt(c, x) ==
  x.is_admin \/ x.is_bot \/ x.user \in get_chat_config(c, "Ignore_List")

\* What the handler did for the k-th joiner of update ev': its outcome, or
\* "unreached" when the handler ended before.
OutcomeOf(k) ==
  IF k <= Len(ev'.log) THEN ev'.log[k].outcome ELSE "unreached"

\* The records of member u of chat c in a table.
RecordsOf(lst, c, u) == { lst[k] : k \in EntriesOf(lst, c, u) }

\* C19: a join by a member who is an administrator of the chat, a bot account
\* or in the chat's ignore-list creates or changes no pending entry and no
\* artifact record of that member, sends no challenge and makes no kick
\* attempt, with join-protection on or off.
C19_ExemptJoinSkipped ==
  [][ ev'.op = "join" =>
      \A k \in 1..Len(ev'.members) :
        IsExempt(ev'.chat, ev'.members[k]) =>
          /\ OutcomeOf(k) \notin {"admitted", "kick"}
          /\ RecordsOf(new_users_list', ev'.chat, ev'.members[k].user)
               = RecordsOf(new_users_list, ev'.chat, ev'.members[k].user)
          /\ RecordsOf(to_delete_join_messages_list', ev'.chat,
                       ev'.members[k].user)
               = RecordsOf(to_delete_join_messages_list, ev'.chat,
                           ev'.members[k].user)
    ]_vars

\* C20: while join-protection is on for a chat, no join to it creates a
\* pending entry or sends a challenge, and every joiner who is not exempt is
\* either welcomed as the authorized requester inside the grant window or
\* gets a kick attempt.
C20_ProtectedJoinWelcomedOrKicked ==
  [][ (ev'.op = "join" /\ get_chat_config(ev'.chat, "Protected")) =>
      /\ new_users_list' = new_users_list
      /\ to_delete_join_messages_list' = to_delete_join_messages_list
      /\ \A k \in 1..Len(ev'.members) :
           /\ OutcomeOf(k) # "admitted"
           /\ ~IsExempt(ev'.chat, ev'.members[k]) =>
                \/ /\ OutcomeOf(k) = "welcomed"
                   /\ Authorized(config[ev'.chat], ev'.members[k].user, now)
                \/ OutcomeOf(k) = "kick"
    ]_vars

\* C21: a join-protection authorization is used up by one join: once the
\* authorized requester has joined inside the grant window the slot no longer
\* authorizes them, so that their next join without a new grant is answered
\* with a kick attempt.
C21_AuthorizationSingleUse ==
  [][ (ev'.op = "join" /\ get_chat_config(ev'.chat, "Protected")) =>
      \A k \in 1..Len(ev'.log) :
        ( /\ ~IsExempt(ev'.chat, ev'.members[k])
          /\ Authorized(config[ev'.chat], ev'.members[k].user, now) )
        => ~Authorized(config'[ev'.chat], ev'.members[k].user, now)
    ]_vars

\* The k-th joiner of update ev' is a member admission control applies to, and
\* the handler reached them.
Reached(k) == k <= Len(ev'.log) /\ ~IsExempt(ev'.chat, ev'.members[k])

\* C22: when a non-exempt member joins a chat whose challenges are disabled
\* and whose join-protection is off, no artifact record of that (chat, member)
\* is left and the pending registry is as it was.
C22_DisabledJoinClearsArtifacts ==
  [][ ( /\ ev'.op = "join"
        /\ ~get_chat_config(ev'.chat, "Enabled")
        /\ ~get_chat_config(ev'.chat, "Protected") )
      => /\ new_users_list' = new_users_list
         /\ \A k \in 1..Len(ev'.members) :
              Reached(k) =>
                RecordsOf(to_delete_join_messages_list', ev'.chat,
                          ev'.members[k].user) = {}
    ]_vars

\* A member who is pending and had an artifact record has just joined again
\* after the chat's challenges were disabled: the entry is there, the record
\* is gone.
C22_Witness ==
  /\ ev.op = "join" /\ ~ev.members[1].is_admin /\ ~ev.members[1].is_bot
  /\ ~get_chat_config(ev.chat, "Enabled")
  /\ \E k \in EntriesOf(new_users_list, ev.chat, ev.user) :
       /\ ~new_users_list[k].kicked_ban
       /\ now < Deadline(new_users_list[k])
  /\ RecordsOf(to_delete_join_messages_list, ev.chat, ev.user) = {}

\* C27: when sending the challenge image to a joining member ends in a
\* transport timeout the join handler still completes: the member has a
\* pending entry from this join, and a message is registered for
\* self-destruction when the challenge times out.
C27_TimeoutStillAdmits ==
  [][ ( /\ ev'.op = "join"
        /\ get_chat_config(ev'.chat, "Enabled")
        /\ ~get_chat_config(ev'.chat, "Protected") )
      => \A k \in 1..Len(ev'.members) :
           (Reached(k) /\ ev'.members[k].send = "timeout")
           => /\ \E e \in RecordsOf(new_users_list', ev'.chat,
                                    ev'.members[k].user) :
                   e.join_time = now /\ ~e.kicked_ban
              /\ Len(to_delete_in_time_messages_list')
                   > Len(to_delete_in_time_messages_list)
    ]_vars

(***************************************************************************)
(* The configuration store.  Each chat has one document; get_chat_config   *)
(* and save_config_property read and write it whole through the chat's     *)
(* TSjson object.  A document is a function from the keys it holds to      *)
(* their values; here config[c] is the file of chat c.                     *)
(***************************************************************************)
StoreChats == {1, 2}

\* get_default_config_data(): those keys whose default is a literal of that
\* function, a falsy one but for User_Solve_Result.
get_default_config_data ==
  [Ignore_List |-> {}, Protected |-> FALSE,
   Protection_Current_User |-> 0, User_Solve_Result |-> "0"]

StoreKeys == DOMAIN get_default_config_data

\* Values a caller stores under a key; the first of each pair is falsy.
StoreValues(key) ==
  CASE key = "Ignore_List" -> {{}, {2}}
    [] key = "Protected" -> {FALSE, TRUE}
    [] key = "Protection_Current_User" -> {0, 1}
    [] key = "User_Solve_Result" -> {"", "0"}

\* The value of a key that Python takes for false.
Falsy(key) ==
  CASE key = "Ignore_List" -> {}
    [] key = "Protected" -> FALSE
    [] key = "Protection_Current_User" -> 0
    [] key = "User_Solve_Result" -> ""

\* A document with no key, and a file whose content is no document.
EmptyDoc == [key \in {} |-> FALSE]
Unreadable == [garbage |-> TRUE]

\* Every content of a configuration file: a document holding some of the
\* keys, or garbage.
StoreFiles ==
  { [key \in held |-> full[key]] :
      held \in SUBSET StoreKeys,
      full \in [Ignore_List : StoreValues("Ignore_List"),
                Protected : StoreValues("Protected"),
                Protection_Current_User : StoreValues("Protection_Current_User"),
                User_Solve_Result : StoreValues("User_Solve_Result")] }
  \cup {Unreadable}

\* TSjson.read(): the document of the file, nothing when the file is absent
\* or cannot be parsed.
read(file) == IF "garbage" \in DOMAIN file THEN EmptyDoc ELSE file

\* config_data[property] = value
Put(config_data, property, value) ==
  [key \in DOMAIN config_data \cup {property} |->
     IF key = property THEN value ELSE config_data[key]]

\* Line 423, "if not config_data": the document holds no key.
NoData(config_data) == DOMAIN config_data = {}

\* Lines 419-426 with the document that was read thrown away.
MutSaveOntoDefaults(docs, c, property, value) ==
  [docs EXCEPT ![c] = Put(get_default_config_data, property, value)]

\* save_config_property(chat_id, property, value), lines 419-426.
save_config_property(docs, c, property, value) ==
  LET config_data == read(docs[c])
      data == IF NoData(config_data) THEN get_default_config_data
              ELSE config_data
  IN  [docs EXCEPT ![c] = Put(data, property, value)]

\* Line 434 testing the value of the key and not its presence.
MutLacksWhenFalsy(config_data, param) ==
  \/ NoData(config_data)
  \/ param \notin DOMAIN config_data
  \/ config_data[param] = Falsy(param)

\* Line 434: (not config_data) or (param not in config_data).
Lacks(config_data, param) ==
  NoData(config_data) \/ param \notin DOMAIN config_data

\* get_chat_config(chat_id, param) with its write-back, lines 429-440: the
\* value returned and the documents left behind.
GetChatConfig(docs, c, param) ==
  LET config_data == read(docs[c])
      default == get_default_config_data[param]
  IN  IF Lacks(config_data, param)
      THEN [value |-> default,
            docs |-> save_config_property(docs, c, param, default)]
      ELSE [value |-> config_data[param], docs |-> docs]

\* A caller reads a key of a chat.
GetEvent ==
  \E c \in StoreChats, param \in StoreKeys :
    LET r == GetChatConfig(config, c, param)
    IN  /\ config' = r.docs
        /\ ev' = [op |-> "get", chat |-> c, key |-> param, value |-> r.value,
                  wrote |-> r.docs # config,
                  follows_set |-> /\ ev.op = "set"
                                  /\ ev.chat = c
                                  /\ ev.key = param]
        /\ UNCHANGED <<procs, now, lists, sweep_pc>>

\* A caller stores a value under a key of a chat.
SetEvent ==
  \E c \in StoreChats, property \in StoreKeys :
    \E value \in StoreValues(property) :
      /\ config' = save_config_property(config, c, property, value)
      /\ ev' = [op |-> "set", chat |-> c, key |-> property, value |-> value]
      /\ UNCHANGED <<procs, now, lists, sweep_pc>>

InitStore ==
  /\ now = 0
  /\ config \in [StoreChats -> StoreFiles]
  /\ new_users_list = <<>>
  /\ to_delete_join_messages_list = <<>>
  /\ to_delete_in_time_messages_list = <<>>
  /\ sweep_pc = "selfdestruct"
  /\ NoStoreCall
  /\ ev = [op |-> "init"]

NextStore ==
  \/ GetEvent
  \/ SetEvent

SpecStore == InitStore /\ [][NextStore]_vars

\* C23: a get on a chat whose document is absent, empty, unreadable or lacks
\* the key returns the key's default; when a get returns, the document holds
\* the key with the value returned; and the keys the document held keep
\* their values.
C23_GetReturnsDefaultAndWritesBack ==
  [][ ev'.op = "get" =>
      LET c == ev'.chat
          key == ev'.key
          old == read(config[c])
      IN  /\ key \notin DOMAIN old => ev'.value = get_default_config_data[key]
          /\ key \in DOMAIN config'[c]
          /\ config'[c][key] = ev'.value
          /\ \A k \in DOMAIN old :
               k \in DOMAIN config'[c] /\ config'[c][k] = old[k] ]_vars

\* A get wrote the default back into a document that holds another key with
\* a value of its own and still lacks a third.
C23_Witness ==
  /\ ev.op = "get"
  /\ ev.wrote
  /\ ev.value = get_default_config_data[ev.key]
  /\ DOMAIN config[ev.chat] # StoreKeys
  /\ \E k \in DOMAIN config[ev.chat] \ {ev.key} :
       config[ev.chat][k] # get_default_config_data[k]

\* C24: a set stores the value under the key, leaves the other keys of the
\* chat as they were (the defaults, when the document was empty or
\* unreadable) and leaves every other chat's document alone; the get of the
\* same key that follows returns the value stored, falsy or not.
C24_SetThenGetReturnsValue ==
  [][ /\ ev'.op = "set" =>
           LET c == ev'.chat
               key == ev'.key
               old == read(config[c])
           IN  /\ key \in DOMAIN config'[c]
               /\ config'[c][key] = ev'.value
               /\ \A d \in StoreChats \ {c} : config'[d] = config[d]
               /\ \A k \in StoreKeys \ {key} :
                    IF NoData(old)
                    THEN /\ k \in DOMAIN config'[c]
                         /\ config'[c][k] = get_default_config_data[k]
                    ELSE /\ (k \in DOMAIN config'[c]) = (k \in DOMAIN old)
                         /\ k \in DOMAIN old => config'[c][k] = old[k]
      /\ (ev'.op = "get" /\ ev'.follows_set) =>
           /\ ev'.value = ev.value
           /\ config' = config ]_vars

\* A get that follows the set of a falsy value which is not the default
\* returned that value.
C24_Witness ==
  /\ ev.op = "get"
  /\ ev.follows_set
  /\ ev.value = Falsy(ev.key)
  /\ ev.value # get_default_config_data[ev.key]

(***************************************************************************)
(* The configuration store under two threads.  Event handlers run on the   *)
(* dispatcher's thread, handle_remove_and_kicks on the main thread, which  *)
(* is also the thread Python runs signal_handler on.  TSjson.read and      *)
(* TSjson.write each take the file's lock for one access;                  *)
(* save_config_property calls the one and then the other.                  *)
(***************************************************************************)
Threads == {"handler", "sweep"}

Other(t) == IF t = "handler" THEN "sweep" ELSE "handler"

\* Files the two threads start from.
LockFiles ==
  {EmptyDoc, [Ignore_List |-> {2}], get_default_config_data}

\* A thread outside the store; the fields say what its last call was.
IdleThread ==
  [pc |-> "idle", op |-> "none", chat |-> 1, key |-> "Protected",
   value |-> FALSE, config_data |-> EmptyDoc, wrote |-> FALSE,
   overlapped |-> FALSE]

\* signal_handler has not been called.
NoSignal == [pc |-> "none", next |-> 1]

InitLock ==
  /\ now = 0
  /\ config \in [StoreChats -> LockFiles]
  /\ new_users_list = <<>>
  /\ to_delete_join_messages_list = <<>>
  /\ to_delete_in_time_messages_list = <<>>
  /\ sweep_pc = "selfdestruct"
  /\ files_config_list = [c \in StoreChats |-> "free"]
  /\ thread = [t \in Threads \cup {"signal"} |->
                 IF t = "signal" THEN NoSignal ELSE IdleThread]
  /\ ev = [op |-> "init"]

\* Thread t runs: the process has not exited, and the main thread is not
\* inside signal_handler.
Running(t) ==
  /\ thread["signal"].pc # "exited"
  /\ t = "sweep" => thread["signal"].pc = "none"

\* What the store steps leave alone.
StoreFrame == UNCHANGED <<now, lists, sweep_pc, ev>>

\* Thread t enters get_chat_config or save_config_property.
Enter(t, op, c, key, value) ==
  /\ Running(t)
  /\ thread[t].pc = "idle"
  /\ thread' =
       [thread EXCEPT
          ![t] = [pc |-> IF op = "get" THEN "read" ELSE "save_read",
                  op |-> op, chat |-> c, key |-> key, value |-> value,
                  config_data |-> EmptyDoc, wrote |-> FALSE,
                  overlapped |-> thread[Other(t)].pc # "idle"],
          ![Other(t)].overlapped = @ \/ thread[Other(t)].pc # "idle"]
  /\ UNCHANGED <<config, files_config_list>>
  /\ StoreFrame

\* Keys the handlers store and read, and keys the sweep reads.
HandlerKeys == {"Ignore_List"}
SweepKeys == {"Protected"}

\* A handler stores a value or reads a key (lines 419, 429).
HandlerCall ==
  \E c \in StoreChats, key \in HandlerKeys :
    \/ \E value \in StoreValues(key) : Enter("handler", "set", c, key, value)
    \/ Enter("handler", "get", c, key, get_default_config_data[key])

\* The sweep reads a key (lines 2065, 2086, 2102).
SweepCall ==
  \E c \in StoreChats, key \in SweepKeys :
    Enter("sweep", "get", c, key, get_default_config_data[key])

\* threading.Lock.acquire(): the lock is free.
CanAcquire(holder) == holder = "free"

\* TSjson.read / TSjson.write: thread t takes the lock of the file.
Acquire(t) ==
  /\ Running(t)
  /\ thread[t].pc \in {"read", "save_read", "write"}
  /\ CanAcquire(files_config_list[thread[t].chat])
  /\ files_config_list' = [files_config_list EXCEPT ![thread[t].chat] = t]
  /\ thread' = [thread EXCEPT ![t].pc =
                  CASE @ = "read" -> "reading"
                    [] @ = "save_read" -> "save_reading"
                    [] @ = "write" -> "writing"]
  /\ UNCHANGED config
  /\ StoreFrame

\* Line 433, file.read(), and lines 434-440: the value is returned, or the
\* default goes to save_config_property.
GetRead(t) ==
  LET c == thread[t].chat
      param == thread[t].key
      config_data == read(config[c])
  IN  /\ Running(t)
      /\ thread[t].pc = "reading"
      /\ files_config_list' = [files_config_list EXCEPT ![c] = "free"]
      /\ thread' = [thread EXCEPT ![t] =
           IF Lacks(config_data, param)
           THEN [@ EXCEPT !.pc = "save_read",
                          !.value = get_default_config_data[param]]
           ELSE IdleThread]
      /\ UNCHANGED config
      /\ StoreFrame

\* Lines 422-425: fjson_config.read(), the defaults for an empty document,
\* and the key put into the local copy.
SaveRead(t) ==
  LET c == thread[t].chat
      config_data == read(config[c])
      data == IF NoData(config_data) THEN get_default_config_data
              ELSE config_data
  IN  /\ Running(t)
      /\ thread[t].pc = "save_reading"
      /\ files_config_list' = [files_config_list EXCEPT ![c] = "free"]
      /\ thread' = [thread EXCEPT
                      ![t].pc = "write",
                      ![t].config_data = Put(data, thread[t].key, thread[t].value)]
      /\ UNCHANGED config
      /\ StoreFrame

\* Line 426, fjson_config.write(config_data): the local copy becomes the file.
SaveWrite(t) ==
  LET c == thread[t].chat
  IN  /\ Running(t)
      /\ thread[t].pc = "writing"
      /\ config' = [config EXCEPT ![c] = thread[t].config_data]
      /\ files_config_list' = [files_config_list EXCEPT ![c] = "free"]
      /\ thread' = [thread EXCEPT ![t].pc = "idle", ![t].wrote = TRUE,
                                  ![t].config_data = EmptyDoc]
      /\ StoreFrame

\* SIGTERM or SIGINT arrives: the main thread enters signal_handler.
SignalArrives ==
  /\ thread["signal"].pc = "none"
  /\ thread' = [thread EXCEPT !["signal"].pc = "acquire"]
  /\ UNCHANGED <<config, files_config_list>>
  /\ StoreFrame

\* Lines 62-63: the lock of the next file of files_config_list is acquired.
SignalAcquire ==
  LET c == thread["signal"].next
  IN  /\ thread["signal"].pc = "acquire"
      /\ c \in StoreChats
      /\ CanAcquire(files_config_list[c])
      /\ files_config_list' = [files_config_list EXCEPT ![c] = "signal"]
      /\ thread' = [thread EXCEPT !["signal"].next = c + 1]
      /\ UNCHANGED config
      /\ StoreFrame

\* Line 67, exit(0), after the loop over files_config_list.
SignalExit ==
  /\ thread["signal"].pc = "acquire"
  /\ thread["signal"].next \notin StoreChats
  /\ thread' = [thread EXCEPT !["signal"].pc = "exited"]
  /\ UNCHANGED <<config, files_config_list>>
  /\ StoreFrame

ThreadStep(t) ==
  \/ Acquire(t)
  \/ GetRead(t)
  \/ SaveRead(t)
  \/ SaveWrite(t)

NextLock ==
  \/ HandlerCall
  \/ SweepCall
  \/ \E t \in Threads : ThreadStep(t)
  \/ SignalArrives
  \/ SignalAcquire
  \/ SignalExit

SpecLock == InitLock /\ [][NextLock]_vars

\* Each thread goes on when it can; a thread waiting for a lock that is
\* free again and again gets it.
FairLock ==
  /\ \A t \in Threads : WF_vars(GetRead(t) \/ SaveRead(t) \/ SaveWrite(t))
  /\ \A t \in Threads : SF_vars(Acquire(t))
  /\ SF_vars(SignalAcquire)
  /\ WF_vars(SignalExit)

SpecLockFair == SpecLock /\ FairLock

\* C25: when the handler and the sweep have run a set or a default
\* write-back on different keys of one chat at the same time and both have
\* finished, the document holds both values.
C25_NoLostUpdate ==
  LET h == thread["handler"]
      s == thread["sweep"]
  IN  ( /\ h.pc = "idle" /\ s.pc = "idle"
        /\ h.wrote /\ s.wrote
        /\ h.overlapped /\ s.overlapped
        /\ h.chat = s.chat
        /\ h.key # s.key )
      => /\ h.key \in DOMAIN config[h.chat]
         /\ config[h.chat][h.key] = h.value
         /\ s.key \in DOMAIN config[s.chat]
         /\ config[s.chat][s.key] = s.value

\* C26: after a shutdown signal the process exits.
C26_ShutdownExits ==
  (thread["signal"].pc = "acquire") ~> (thread["signal"].pc = "exited")

\* C30: a ban is attempted only in a pass of the sweep (line 2147 is the one
\* call of tlg_ban_user), for an entry that is not marked kicked, whose
\* deadline has passed and whose retry count is at least 5, and whatever the
\* ban returns the entry has left the registry when the pass ends.
C30_BanOnlyBySweepAtFiveRetries ==
  [][ ev'.op = "check" =>
      \A k \in 1..Len(ev'.log) :
        ev'.log[k].action = "ban" =>
          LET before == EntriesOf(new_users_list, ev'.log[k].chat_id,
                                  ev'.log[k].user_id)
          IN  /\ before # {}
              /\ \A i \in before :
                   /\ ~new_users_list[i].kicked_ban
                   /\ now >= Deadline(new_users_list[i])
                   /\ new_users_list[i].join_retries >= 5
              /\ EntriesOf(new_users_list', ev'.log[k].chat_id,
                           ev'.log[k].user_id) = {} ]_vars

\* A ban that the transport refused for lack of rights, or that failed in
\* another way, has removed the entry all the same.
C30_Witness ==
  /\ ev.op = "check"
  /\ \E k \in 1..Len(ev.log) :
       /\ ev.log[k].action = "ban"
       /\ ev.log[k].result # 1
       /\ EntriesOf(new_users_list, ev.log[k].chat_id, ev.log[k].user_id) = {}

(***************************************************************************)
(* The sweep and a handler side by side.  The handlers run one after the   *)
(* other on the dispatcher's thread, the sweep on the main thread, and no  *)
(* lock guards the three tables: the other thread runs between two         *)
(* iterations of a loop and while a call to the transport is under way.    *)
(* thread["handler"] and thread["sweep"] hold the locals of msg_new_user   *)
(* and of check_time_to_kick_not_verify_users.                             *)
(***************************************************************************)
MaxRaceMin == 1
MaxRaceLen == 5

\* No entry is held.
NoEntry == NewUser(0, 0, <<>>, 0)

HandlerIdle == [pc |-> "idle", chat |-> 0, m |-> Joiner(0, CHOOSE in \in SentJoins : TRUE), i |-> 1]

SweepScan(i) == [pc |-> "scan", i |-> i, new_user |-> NoEntry]

InitRace ==
  /\ now = 0
  /\ config \in [Chats -> InitConfigs]
  /\ new_users_list = <<>>
  /\ to_delete_join_messages_list = <<>>
  /\ to_delete_in_time_messages_list = <<>>
  /\ sweep_pc = "selfdestruct"
  /\ files_config_list = [c \in {} |-> "free"]
  /\ thread = [handler |-> HandlerIdle, sweep |-> SweepScan(1)]
  /\ ev = [op |-> "init"]

RaceRoom == Len(to_delete_in_time_messages_list) < MaxRaceLen

\* msg_new_user is called for an ordinary member u of chat c, the challenges
\* being enabled and join-protection off: lines 657-749.
RaceJoinStart ==
  \E c \in Chats, u \in Users, in \in SentJoins :
    /\ thread["handler"].pc = "idle"
    /\ thread' = [thread EXCEPT !["handler"] =
                    [pc |-> "clean", chat |-> c, m |-> Joiner(u, in), i |-> 1]]
    /\ ev' = [op |-> "join_start", chat |-> c, user |-> u]
    /\ UNCHANGED <<files_config_list, now, config, lists, sweep_pc>>

\* One round of the loop of lines 751-759: the record at i is removed when it
\* is one of the joiner, and i moves on.
RaceJoinClean ==
  LET h == thread["handler"]
      lst == to_delete_join_messages_list
  IN  /\ h.pc = "clean"
      /\ IF h.i > Len(lst)
         THEN /\ thread' = [thread EXCEPT !["handler"].pc = "send"]
              /\ UNCHANGED to_delete_join_messages_list
         ELSE /\ thread' = [thread EXCEPT !["handler"].i = h.i + 1]
              /\ to_delete_join_messages_list' =
                   IF lst[h.i].user_id = h.m.user /\ lst[h.i].chat_id = h.chat
                   THEN RemoveFirst(lst, lst[h.i])
                   ELSE lst
      /\ ev' = [op |-> "join_clean", chat |-> h.chat, user |-> h.m.user]
      /\ UNCHANGED <<files_config_list, now, config, new_users_list,
                     to_delete_in_time_messages_list, sweep_pc>>

\* Lines 760-832: the challenge is sent and the member registered.
RaceJoinFinish ==
  LET h == thread["handler"]
      message == Msg(h.chat, h.m.user, FreshId(1))
      r == JoinMemberFrom(JoinState, h.chat, message, TRUE, h.m,
                          to_delete_join_messages_list)
  IN  /\ h.pc = "send"
      /\ new_users_list' = r.nu
      /\ to_delete_join_messages_list' = r.jm
      /\ to_delete_in_time_messages_list' = r.tm
      /\ thread' = [thread EXCEPT !["handler"] = HandlerIdle]
      /\ ev' = [op |-> "join", chat |-> h.chat, user |-> h.m.user,
                answer |-> h.m.answer,
                admitted |-> r.log[1].outcome = "admitted",
                members |-> <<[user |-> h.m.user, is_admin |-> h.m.is_admin,
                               is_bot |-> h.m.is_bot, send |-> h.m.send]>>,
                log |-> r.log]
      /\ UNCHANGED <<files_config_list, now, config, sweep_pc>>

\* Texts that hold the answer of a challenge.
RightTexts ==
  [msg_text : { t \in Texts : \E a \in Answers : Solves(a, t) },
   has_last_name : {TRUE}, send_ok : {TRUE}, rm_result : {1}]

\* msg_nocmd, when the dispatcher's thread is free.
RaceTextEvent ==
  /\ thread["handler"].pc = "idle"
  /\ TextEvent(Users, RightTexts)

\* Lines 2084-2099 for the entry at i: a kicked entry is purged or kept, an
\* entry whose time has not come is passed over, and for any other the sweep
\* goes on to the kick or the ban; past the end, the pass is over.
CheckExamine ==
  LET s == thread["sweep"]
      lst == new_users_list
  IN  /\ sweep_pc = "check"
      /\ s.pc = "scan"
      /\ ev' = [op |-> "examine"]
      /\ UNCHANGED <<files_config_list, now, config,
                     to_delete_join_messages_list,
                     to_delete_in_time_messages_list>>
      /\ IF s.i > Len(lst)
         THEN /\ sweep_pc' = "sleep"
              /\ thread' = [thread EXCEPT !["sweep"] = SweepScan(1)]
              /\ UNCHANGED new_users_list
         ELSE /\ UNCHANGED sweep_pc
              /\ IF lst[s.i].kicked_ban
                 THEN /\ new_users_list' =
                           IF PurgeDue(lst[s.i], now)
                           THEN RemoveFirst(lst, lst[s.i]) ELSE lst
                      /\ thread' = [thread EXCEPT !["sweep"] =
                           SweepScan(NextIndex(s.i, PurgeDue(lst[s.i], now)))]
                 ELSE /\ UNCHANGED new_users_list
                      /\ thread' = [thread EXCEPT !["sweep"] =
                           IF KickDue(lst[s.i], now)
                           THEN [pc |-> "sanction", i |-> s.i,
                                 new_user |-> lst[s.i]]
                           ELSE SweepScan(s.i + 1)]

\* Lines 2100-2196 for the entry the sweep holds: tlg_kick_user or
\* tlg_ban_user returns o.result, the entry, when it still is in the
\* registry, is marked or removed, and the member's first artifact record is
\* removed.  ev tells whether the member had an entry in the registry when
\* the call was made.
CheckSanction ==
  LET s == thread["sweep"]
      new_user == s.new_user
      chat_id == new_user.chat_id
      lst == new_users_list
      tm == to_delete_in_time_messages_list
  IN  /\ sweep_pc = "check"
      /\ s.pc = "sanction"
      /\ \E o \in Sanctions :
           LET sent == IF o.send_ok THEN Msg(chat_id, BotId, FreshId(1))
                       ELSE NoMsg
               marked == [new_user EXCEPT
                            !.join_retries = RetriesAfterKick(@, o.result),
                            !.kicked_ban = KickedFlag(o.result)]
           IN  /\ new_users_list' =
                    IF IndexOf(lst, new_user) = 0 THEN lst
                    ELSE IF BanDue(new_user) THEN RemoveFirst(lst, new_user)
                    ELSE [lst EXCEPT ![IndexOf(lst, new_user)] = marked]
               /\ to_delete_in_time_messages_list' =
                    SweepJoinMsgs(
                      IF BanDue(new_user) \/ o.result = -2 THEN tm
                      ELSE tlg_send_selfdestruct_msg_in(tm, sent,
                                                        T_DEL_MSG * 60, now),
                      to_delete_join_messages_list, chat_id,
                      new_user.user_id, now)
               /\ ev' = [op |-> "sanction", entry |-> new_user,
                         action |-> IF BanDue(new_user) THEN "ban" ELSE "kick",
                         result |-> o.result,
                         pending |-> EntriesOf(lst, chat_id,
                                               new_user.user_id) # {},
                         deleted |-> SweepDeleteAttempts(
                                       to_delete_join_messages_list, chat_id,
                                       new_user.user_id)]
      /\ to_delete_join_messages_list' =
           RemoveJoinMsgs(to_delete_join_messages_list, chat_id,
                          new_user.user_id)
      /\ thread' = [thread EXCEPT !["sweep"] = SweepScan(NextIndex(s.i, FALSE))]
      /\ UNCHANGED <<files_config_list, now, config, sweep_pc>>

NextRace ==
  \/ now + 60 <= MaxRaceMin * 60 /\ Sleep(60)
  \/ RaceRoom /\ RaceJoinStart
  \/ RaceJoinClean
  \/ RaceJoinFinish
  \/ RaceRoom /\ RaceTextEvent
  \/ selfdestruct_messages(Deleted)
  \/ CheckExamine
  \/ CheckSanction

SpecRace == InitRace /\ [][NextRace]_vars

\* C28: the sweep makes no kick or ban attempt for a member whose entry a
\* correct answer has removed from the registry since the sweep picked it.
C28_NoSanctionAfterResolved ==
  [][ ev'.op = "sanction" => ev'.pending ]_vars

\* C29: when the join handler has admitted a member, the artifact table holds
\* one record of that member and chat, the one appended last, which names the
\* challenge message just registered for self-destruction.
C29_OneArtifactRecordAfterJoin ==
  [][ (ev'.op = "join" /\ ev'.admitted) =>
      LET lst == to_delete_join_messages_list'
          tm == to_delete_in_time_messages_list'
      IN  /\ EntriesOf(lst, ev'.chat, ev'.user) = {Len(lst)}
          /\ lst[Len(lst)].msg_id_join1 = tm[Len(tm)].Msg_id ]_vars

\* C31: when the sweep has kicked or banned a timed-out member, whatever the
\* result, the artifact table holds no record of that member and chat, every
\* record it held of them has had a delete attempt for its challenge message
\* and for its wrong-answer notice, and its join message is registered for
\* self-destruction.
C31_SweepClearsArtifacts ==
  [][ ev'.op = "sanction" =>
      LET c == ev'.entry.chat_id
          u == ev'.entry.user_id
      IN  /\ RecordsOf(to_delete_join_messages_list', c, u) = {}
          /\ \A r \in RecordsOf(to_delete_join_messages_list, c, u) :
               /\ ({r.msg_id_join1, r.msg_id_join2} \ {None}) \subseteq ev'.deleted
               /\ \E k \in 1..Len(to_delete_in_time_messages_list') :
                    to_delete_in_time_messages_list'[k].Msg_id
                      = r.msg_id_join0.message_id ]_vars

\* C32: whenever a correct answer resolves a pending member's challenge in a
\* chat whose Restrict_Non_Text is on, the text-only restriction is called for
\* the member, with or without a last name in the sender's profile and
\* whatever became of the welcome message.
C32_ResolvedMemberRestricted ==
  [][ ( /\ ev'.op = "text"
        /\ ev'.kind = "solved"
        /\ get_chat_config(ev'.chat, "Restrict_Non_Text") )
      => ev'.restricted ]_vars

\* The authorization slot of a configuration document.
Slot(cfg) == <<cfg.Protection_Current_User, cfg.Protection_Current_Time>>

\* The slot of document cfg is held by a requester whose grant window is open
\* at time t.
SlotHeld(cfg, t) ==
  /\ cfg.Protection_Current_User # NoUser
  /\ t <= cfg.Protection_Current_Time + cfg.Captcha_Time * 60

\* C33: a link request from a user other than the one who holds the slot
\* inside the grant window leaves requester id and grant time as they are; a
\* request changes the slot only to grant it to the requester, and only when
\* the slot was empty or its window had expired; so no two users are
\* authorized for a chat at once.
C33_HeldSlotNotRegranted ==
  [][ ev'.op = "request" =>
      LET cfg == config[ev'.chat]
          new == config'[ev'.chat]
      IN  /\ (SlotHeld(cfg, now) /\ cfg.Protection_Current_User # ev'.user)
               => Slot(new) = Slot(cfg)
          /\ Slot(new) # Slot(cfg)
               => /\ Slot(new) = <<ev'.user, now>>
                  /\ ~SlotHeld(cfg, now)
          /\ \A u1, u2 \in Users :
               (Authorized(new, u1, now) /\ Authorized(new, u2, now))
                 => u1 = u2 ]_vars

\* A user asked for the link while another held the slot inside the window,
\* and the slot is still the holder's.
C33_Witness ==
  /\ ev.op = "request"
  /\ ~ev.granted
  /\ SlotHeld(config[ev.chat], now)
  /\ config[ev.chat].Protection_Current_User # ev.user

(***************************************************************************)
(* The list of configuration files.  Here files_config_list is the list    *)
(* itself: one record per call of TSjson(path), each with its own lock.    *)
(* A chat id is a directory name (a string) when listdir or the data of a  *)
(* "p<chat>" button gives it, and an integer when an update gives it; in   *)
(* Python "1" == 1 is False, and both format to the same path.             *)
(***************************************************************************)
\* The chats that write to the bot, and those with a directory on disk.
FileChats == {1, 2, 3}
OnDisk == {1, 2}

StrId(c) == [kind |-> "str", n |-> c]
IntId(c) == [kind |-> "int", n |-> c]

\* Lines 94 and 454: "{}/{}/{}".format(CONST["CHATS_DIR"], chat_id, F_CONF).
ConfigPath(chat_id) == chat_id.n

\* TSjson(path), the k-th object made: a path and a lock of its own.
TSjson(path, k) == [path |-> path, lock |-> k]

\* Lines 89-96: one entry per name listdir returns, the name as the ID.
initialize_resources(files) ==
  [k \in 1..Len(files) |->
     [ID |-> StrId(files[k]), File |-> TSjson(ConfigPath(StrId(files[k])), k)]]

\* What listdir can return: the directories on disk or some of them, in any
\* order.
DirListings ==
  { f \in UNION { [1..n -> OnDisk] : n \in 0..Cardinality(OnDisk) } :
      \A i, j \in 1..Len(f) : f[i] = f[j] => i = j }

\* Lines 443-464: the first entry whose ID equals chat_id, or a new entry,
\* appended, when no ID equals it.
get_chat_config_file(lst, chat_id) ==
  IF \E k \in 1..Len(lst) : lst[k].ID = chat_id
  THEN [lst |-> lst,
        file |-> lst[CHOOSE k \in 1..Len(lst) :
                       /\ lst[k].ID = chat_id
                       /\ \A j \in 1..(k - 1) : lst[j].ID # chat_id].File]
  ELSE [lst |-> Append(lst, [ID |-> chat_id,
                             File |-> TSjson(ConfigPath(chat_id), Len(lst) + 1)]),
        file |-> TSjson(ConfigPath(chat_id), Len(lst) + 1)]

\* The ids handlers pass on: the integer chat id of an update, or the text
\* after "p" in the data of a button made from an entry of the list (lines
\* 294 and 1094).
EventIds ==
  { IntId(c) : c \in FileChats }
    \cup { StrId(files_config_list[k].ID.n) : k \in 1..Len(files_config_list) }

InitFiles ==
  /\ now = 0
  /\ config \in [Chats -> InitConfigs]
  /\ new_users_list = <<>>
  /\ to_delete_join_messages_list = <<>>
  /\ to_delete_in_time_messages_list = <<>>
  /\ sweep_pc = "selfdestruct"
  /\ files_config_list \in { initialize_resources(f) : f \in DirListings }
  /\ thread = [t \in {} |-> "idle"]
  /\ ev = [op |-> "init"]

\* A handler reads or writes a property of chat chat_id: get_chat_config and
\* save_config_property both start with get_chat_config_file.
FileEvent ==
  \E chat_id \in EventIds :
    LET r == get_chat_config_file(files_config_list, chat_id)
    IN  /\ files_config_list' = r.lst
        /\ ev' = [op |-> "file", chat_id |-> chat_id, file |-> r.file]
        /\ UNCHANGED <<thread, now, config, lists, sweep_pc>>

NextFiles == FileEvent

SpecFiles == InitFiles /\ [][NextFiles]_vars

\* C34: files_config_list holds at most one entry, one lock, for each chat:
\* after initialize_resources and after every call of get_chat_config_file,
\* those for chats registered at startup included.
C34_OneFileEntryPerChat ==
  \A i, j \in 1..Len(files_config_list) :
    files_config_list[i].ID.n = files_config_list[j].ID.n => i = j

MaxCaptchaTime == 120
\* Line 1390: the highest difficulty.
MaxDifficulty == 5

\* Commands in a row the scheduler table has room for (two entries each).
MaxCmdLen == 6

\* CONST["INIT_CAPTCHA_TIME_MIN"] and CONST["INIT_CAPTCHA_DIFFICULTY_LEVEL"]:
\* the ends of the ranges and a value inside.
CmdConfigs ==
  [Captcha_Time : {1, 5, MaxCaptchaTime},
   Captcha_Difficulty_Level : {1, 2, MaxDifficulty}]

\* args of a command: nothing (len(args) = 0), or args[0].
NoArg == <<>>
CmdArgs ==
  { NoArg, <<"-", "3">>, <<"0">>, <<"1">>, <<"3">>, <<"6">>, <<"6", "0">>,
    <<"1", "2", "0">>, <<"1", "2", "1">>, <<"9", "9", "9">>, <<"a", "b">> }

\* Lines 1340-1342 with the test new_time < 1 left out.
MutNewTimeUnclamped(arg) == int(arg)

\* Lines 1340-1342: new_time = int(args[0]), raised to 1.
new_time(arg) == IF int(arg) < 1 THEN 1 ELSE int(arg)

\* Lines 1387-1391: new_difficulty = int(args[0]), brought into 1..5.
new_difficulty(arg) ==
  IF int(arg) < 1 THEN 1
  ELSE IF int(arg) > MaxDifficulty THEN MaxDifficulty ELSE int(arg)

\* /time by member u of chat c (lines 1316-1360).
cmd_time(c, u, arg, is_admin, send_ok) ==
  /\ config' = IF /\ is_admin
                  /\ arg # NoArg
                  /\ is_int(arg)
                  /\ new_time(arg) <= MaxCaptchaTime
               THEN [config EXCEPT ![c].Captcha_Time = new_time(arg)]
               ELSE config
  /\ CommandReply(c, u, send_ok)
  /\ ev' = [op |-> "time", chat |-> c, user |-> u, arg |-> arg,
            is_admin |-> is_admin]
  /\ UNCHANGED <<procs, now, sweep_pc, new_users_list,
                 to_delete_join_messages_list>>

\* /difficulty by member u of chat c (lines 1363-1406).
cmd_difficulty(c, u, arg, is_admin, send_ok) ==
  /\ config' = IF is_admin /\ arg # NoArg /\ is_int(arg)
               THEN [config EXCEPT
                       ![c].Captcha_Difficulty_Level = new_difficulty(arg)]
               ELSE config
  /\ CommandReply(c, u, send_ok)
  /\ ev' = [op |-> "difficulty", chat |-> c, user |-> u, arg |-> arg,
            is_admin |-> is_admin]
  /\ UNCHANGED <<procs, now, sweep_pc, new_users_list,
                 to_delete_join_messages_list>>

InitCmd ==
  /\ now = 0
  /\ config \in [Chats -> CmdConfigs]
  /\ new_users_list = <<>>
  /\ to_delete_join_messages_list = <<>>
  /\ to_delete_in_time_messages_list = <<>>
  /\ sweep_pc = "selfdestruct"
  /\ NoStoreCall
  /\ ev = [op |-> "init"]

CmdRoom == Len(to_delete_in_time_messages_list) < MaxCmdLen

TimeEvent ==
  \E c \in Chats, arg \in CmdArgs, is_admin \in BOOLEAN, send_ok \in BOOLEAN :
    cmd_time(c, 1, arg, is_admin, send_ok)

DifficultyEvent ==
  \E c \in Chats, arg \in CmdArgs, is_admin \in BOOLEAN, send_ok \in BOOLEAN :
    cmd_difficulty(c, 1, arg, is_admin, send_ok)

NextCmd ==
  \/ CmdRoom /\ TimeEvent
  \/ CmdRoom /\ DifficultyEvent

SpecCmd == InitCmd /\ [][NextCmd]_vars

\* C36: after any /time and /difficulty commands the stored timeout is
\* between 1 and 120 minutes and the stored difficulty between 1 and 5, and a
\* /time with an argument above 120 leaves the stored timeout as it was.
C36_TimeAndDifficultyInRange ==
  [][ /\ \A c \in Chats :
           /\ config'[c].Captcha_Time \in 1..MaxCaptchaTime
           /\ config'[c].Captcha_Difficulty_Level \in 1..MaxDifficulty
      /\ ( /\ ev'.op = "time"
           /\ ev'.arg # NoArg
           /\ is_int(ev'.arg)
           /\ int(ev'.arg) > MaxCaptchaTime )
         => config'[ev'.chat].Captcha_Time = config[ev'.chat].Captcha_Time
    ]_vars

\* An administrator's /time with an argument above 120 has left a timeout
\* that an earlier /time stored.
C36_Witness ==
  /\ ev.op = "time"
  /\ ev.is_admin
  /\ ev.arg = <<"9", "9", "9">>
  /\ config[ev.chat].Captcha_Time = 60
  /\ config[ev.chat].Captcha_Difficulty_Level = 3

(***************************************************************************)
(* Two chats: member 1 is in both, member 2 in the first.  They join, get  *)
(* challenges with either answer, write texts, send other content and      *)
(* press buttons; nobody joins twice and no time passes.                   *)
(***************************************************************************)
CrossChats == {1, 2}

\* The members of chat c.
CrossMembers(c) == IF c = 1 THEN Users ELSE {1}

MaxCrossLen == 5

\* Joins whose challenge is sent, with either answer.
CrossJoins ==
  [is_admin : {FALSE}, is_bot : {FALSE}, answer : Answers, send : {"ok"}]

\* Texts that hold one of the answers, and a wrong answer.
CrossTexts ==
  [msg_text : {<<"4", "8", "2", "1">>, <<"a", "b", "1", "2">>,
               <<"9", "9", "9", "9">>},
   has_last_name : {TRUE}, send_ok : {TRUE}, rm_result : {1}]

InitCross ==
  /\ now = 0
  /\ config \in [CrossChats -> InitConfigs]
  /\ new_users_list = <<>>
  /\ to_delete_join_messages_list = <<>>
  /\ to_delete_in_time_messages_list = <<>>
  /\ sweep_pc = "selfdestruct"
  /\ NoStoreCall
  /\ ev = [op |-> "init"]

CrossRoom == Len(to_delete_in_time_messages_list) < MaxCrossLen

CrossJoinEvent ==
  \E c \in CrossChats :
    \E u \in NotWaiting(c, CrossMembers(c)), in \in CrossJoins :
      msg_new_user(c, <<Joiner(u, in)>>, TRUE)

CrossTextEvent ==
  \E c \in CrossChats :
    \E u \in CrossMembers(c), in \in CrossTexts :
      msg_nocmd(c, u, in.msg_text, in.has_last_name, in.send_ok, in.rm_result)

CrossNoTextEvent ==
  \E c \in CrossChats : \E u \in CrossMembers(c) : msg_notext(c, u, TRUE)

CrossButtonEvent ==
  \E c \in CrossChats :
    \E u \in CrossMembers(c), answer \in Answers :
      button_request_captcha(c, u, u, answer, TRUE)

NextCross ==
  \/ CrossRoom /\ CrossJoinEvent
  \/ CrossRoom /\ CrossTextEvent
  \/ CrossRoom /\ CrossNoTextEvent
  \/ CrossButtonEvent

SpecCross == InitCross /\ [][NextCross]_vars

\* The entries or records of a table that are not those of member u in
\* chat c, in their order.
OthersOf(lst, c, u) ==
  SelectSeq(lst, LAMBDA e : ~(e.chat_id = c /\ e.user_id = u))

\* C37: a text, a non-text message or a button press of member m in chat A
\* leaves every pending entry and every artifact record that is not of
\* (A, m) as it was: m's entry and record in another chat, also when the
\* text holds that chat's answer, and the entries of other members of A.
C37_OtherPairsUntouched ==
  [][ ev'.op \in {"text", "notext", "button"} =>
      /\ OthersOf(new_users_list', ev'.chat, ev'.user)
           = OthersOf(new_users_list, ev'.chat, ev'.user)
      /\ OthersOf(to_delete_join_messages_list', ev'.chat, ev'.user)
           = OthersOf(to_delete_join_messages_list, ev'.chat, ev'.user)
    ]_vars

\* A member with no entry in the chat they write in has sent the answer of
\* their challenge in the other chat, which is still pending there.
C37_Witness ==
  /\ ev.op = "text"
  /\ EntriesOf(new_users_list, ev.chat, ev.user) = {}
  /\ \E k \in 1..Len(new_users_list) :
       /\ new_users_list[k].user_id = ev.user
       /\ new_users_list[k].chat_id # ev.chat
       /\ Solves(new_users_list[k].captcha_num, ev.text)
       /\ RecordsOf(to_delete_join_messages_list,
                    new_users_list[k].chat_id, ev.user) # {}

\* C38: every entry of the registry has a retry count from 1 to 5.  The entry
\* of a member who had none starts at 1; the count of a member who had an
\* entry is the one that entry had (a re-join copies it), or one more when a
\* pass of the sweep has kicked the member, with success, at a count below 5.
C38_RetriesBetweenOneAndFive ==
  [][ \A k \in 1..Len(new_users_list') :
        LET e == new_users_list'[k]
            old == EntriesOf(new_users_list, e.chat_id, e.user_id)
        IN  /\ e.join_retries \in 1..5
            /\ old = {} => e.join_retries = 1
            /\ \A j \in old :
                 \/ e.join_retries = new_users_list[j].join_retries
                 \/ /\ ev'.op = "check"
                    /\ new_users_list[j].join_retries < 5
                    /\ e.join_retries = new_users_list[j].join_retries + 1
                    /\ \E n \in 1..Len(ev'.log) :
                         /\ ev'.log[n].chat_id = e.chat_id
                         /\ ev'.log[n].user_id = e.user_id
                         /\ ev'.log[n].action = "kick"
                         /\ ev'.log[n].result = 1
    ]_vars

\* A member kicked four times has joined again: the entry holds the count 5.
C38_Witness ==
  /\ ev.op = "join"
  /\ \E k \in 1..Len(new_users_list) :
       /\ new_users_list[k].join_retries = 5
       /\ ~new_users_list[k].kicked_ban

\* No handler and no pass of the sweep is under way.
Quiescent == thread["handler"].pc = "idle" /\ thread["sweep"].pc = "scan"

\* C39: whenever no handler and no sweep step is under way, every artifact
\* record is of a member and chat that have an entry in the registry whose
\* kicked flag is not set.
C39_ArtifactsOnlyForPending ==
  Quiescent =>
    \A k \in 1..Len(to_delete_join_messages_list) :
      \E j \in EntriesOf(new_users_list,
                         to_delete_join_messages_list[k].chat_id,
                         to_delete_join_messages_list[k].user_id) :
        ~new_users_list[j].kicked_ban

(***************************************************************************)
(* Challenges are disabled while a member is pending: the member joins and *)
(* answers, /disable is sent by an administrator or by somebody else, and  *)
(* the sweep loop goes on, pass after pass.                                *)
(***************************************************************************)
MaxDisableMin == 2
MaxDisableLen == 4

DisableRoom == Len(to_delete_in_time_messages_list) < MaxDisableLen

\* The member who joins and writes.
DisableMembers == {1}

DisableEvent ==
  \E c \in Chats, is_admin \in BOOLEAN : cmd_disable(c, 2, is_admin, TRUE)

DisableSleep == now + 60 <= MaxDisableMin * 60 /\ Sleep(60)

NextDisable ==
  \/ DisableSleep
  \/ DisableRoom
       /\ (\E c \in Chats : JoinEvent(NotWaiting(c, DisableMembers), SentJoins))
  \/ DisableRoom /\ TextEvent(DisableMembers, RightTexts)
  \/ DisableRoom /\ DisableEvent
  \/ selfdestruct_messages(Deleted)
  \/ check_time_to_kick_not_verify_users(Sanctions)

\* handle_remove_and_kicks is a loop without an exit: each of its stages is
\* run in the end.
FairDisable ==
  /\ WF_vars(DisableSleep)
  /\ WF_vars(selfdestruct_messages(Deleted))
  /\ WF_vars(check_time_to_kick_not_verify_users(Sanctions))

SpecDisableFair == Init /\ [][NextDisable]_vars /\ FairDisable

\* Member u has an entry in chat c that waits for an answer, the chat's
\* challenges are disabled, and the entry's deadline lies within the time
\* the model follows.
PendingWhileDisabled(c, u) ==
  /\ ~get_chat_config(c, "Enabled")
  /\ \E k \in EntriesOf(new_users_list, c, u) :
       /\ ~new_users_list[k].kicked_ban
       /\ Deadline(new_users_list[k]) <= MaxDisableMin * 60

\* A pass of the sweep has just tried to kick or ban member u of chat c.
SanctionAttempted(c, u) ==
  /\ ev.op = "check"
  /\ \E n \in 1..Len(ev.log) :
       /\ ev.log[n].chat_id = c
       /\ ev.log[n].user_id = u
       /\ ev.log[n].action \in {"kick", "ban"}

\* C40: /disable leaves the registry as it is, and a member pending in a
\* chat whose challenges are disabled is given the kick or ban attempt by the
\* sweep once the deadline has passed.
C40_DisabledChatStillSanctions ==
  /\ [][ ev'.op = "disable" => new_users_list' = new_users_list ]_vars
  /\ \A c \in Chats, u \in DisableMembers :
       PendingWhileDisabled(c, u) ~> SanctionAttempted(c, u)

\* The sweep has tried to kick a member of a chat whose challenges were
\* disabled after the member joined.
C40_Witness ==
  /\ \E c \in Chats, u \in DisableMembers :
       /\ ~get_chat_config(c, "Enabled")
       /\ SanctionAttempted(c, u)

====
